---------------------------- MODULE Spec2Model ----------------------------
(***************************************************************************)
(* A verification model of the Motion Core CLI (crates/core, crates/cli):  *)
(* the path sanitizer, the dependency closure, the install plan / conflict *)
(* resolution / apply pipeline and the registry cache.                     *)
(*                                                                         *)
(* Strings of the program are modelled by what the code does with them:    *)
(*   - a path string is the sequence of its '/'-separated raw segments     *)
(*     ("a//b" is <<"a","","b">>, "/x" is <<"","x">>, "" is <<"">>);       *)
(*   - a PathBuf is the sequence of its components as Path::components     *)
(*     yields them: "/" is the root marker, "." a leading current-dir      *)
(*     marker, ".." a parent-dir marker, anything else a normal segment    *)
(*     (PathBuf equality in Rust is equality of components).               *)
(***************************************************************************)
EXTENDS Integers, Sequences, FiniteSets, TLC

VARIABLES
    call,       \* pure-function checks: the function that was applied ("none" before)
    arg,        \* pure-function checks: the inputs drawn for it
    ret,        \* pure-function checks: its result ("none" before)
    components, \* resolve_install_order: the catalog, slug -> ComponentRecord
    requested,  \* resolve_install_order: the requested slugs
    queue,      \* resolve_install_order: the work stack
    resolved,   \* resolve_install_order: the visited set
    order,      \* resolve_install_order: "running", or the value returned
    cache_files, \* registry cache: <<scope, kind>> -> the file on disk
    ttl,         \* registry cache: registry_ttl and asset_ttl of the CacheStore
    now,         \* registry cache: SystemTime::now(), in seconds
    last_read,   \* registry cache: the read just made and what it returned
    last_write,  \* registry cache: the last write made and how it ended
    client,      \* registry client: whether it has a cache, and its loaded manifest
    last_load,   \* registry client: the call just made, what it did and returned
    setup,       \* add: the front end, motion-core.json and the package manager
    args,        \* add: the requested slugs, --dry-run and the confirmation mode
    disk,        \* add: the files and directories of the machine
    package_json, \* add: the workspace's package.json
    pm_calls,    \* add: the package-manager invocations made so far
    phase,       \* add: where the invocation stands
    run,         \* add: the number of the invocation
    planned,     \* add: the result of planning
    asked,       \* add: the planned files the user was asked about
    report,      \* add: what the invocation returned
    history,     \* add: the plan and the report of every earlier invocation
    edits,       \* add: the number of edits made by other programs
    cache_root,  \* cache command: whether the cache root directory exists
    last_clear,  \* cache command: the last run of it, and the keys written since
    css,         \* token sync: the Tailwind CSS file and its backup file
    last_sync,   \* token sync: the last run of it, what it met and returned
    invocations  \* concurrent add: each invocation's position, plan and report

fnVars == <<call, arg, ret>>

orderVars == <<components, requested, queue, resolved, order>>

cacheVars == <<cache_files, ttl, now, last_read, last_write, client, last_load>>

clearVars == <<cache_root, last_clear>>

syncVars == <<css, last_sync>>

raceVars == <<invocations>>

addVars == <<setup, args, disk, package_json, pm_calls, phase, run, planned, asked,
             report, history, edits>>

vars == <<call, arg, ret, components, requested, queue, resolved, order,
          cache_files, ttl, now, last_read, last_write, client, last_load,
          setup, args, disk, package_json, pm_calls, phase, run, planned, asked,
          report, history, edits, cache_root, last_clear, css, last_sync,
          invocations>>

\* The value of resolve_install_order: Ok(order) or Err(slug not found).
OrderNone(status) == [status |-> status, order |-> <<>>, err |-> ""]

FnIdle == call = "none" /\ arg = "none" /\ ret = "none"

OrderIdle ==
    /\ components = <<>>
    /\ requested = <<>>
    /\ queue = <<>>
    /\ resolved = {}
    /\ order = OrderNone("idle")

NoRead == [called |-> FALSE, key |-> <<>>, allow_stale |-> FALSE,
           some |-> FALSE, bytes |-> "", fresh |-> FALSE]

NoWrite ==
    [called |-> FALSE, key |-> <<>>, bytes |-> "", at |-> 0, written |-> FALSE,
     logged |-> FALSE, propagated |-> FALSE]

\* RegistryClient before any call: `component_manifest: RefCell::new(None)`.
NoManifest == [some |-> FALSE, map |-> <<>>]

NoClient == [has_cache |-> FALSE, component_manifest |-> NoManifest]

NoResult == [ok |-> FALSE, variant |-> "", bytes |-> ""]

NoFile == [ok |-> FALSE, variant |-> "", path |-> <<>>, bytes |-> <<>>]

NoLoad ==
    [called |-> FALSE, call |-> "", key |-> <<>>,
     response |-> [sent |-> FALSE, status |-> 0, readable |-> FALSE, body |-> ""],
     requests |-> 0, fresh_read |-> FALSE, stale_read |-> FALSE,
     before |-> [exists |-> FALSE, modified |-> 0, bytes |-> ""],
     held |-> NoManifest, preloaded |-> NoManifest, result |-> NoResult, file |-> NoFile]

NoClear ==
    [called |-> FALSE, options |-> [clear |-> FALSE, force |-> FALSE], ok |-> FALSE,
     variant |-> "", cleared |-> FALSE, root_before |-> FALSE, held_before |-> {},
     written |-> {}]

\* The cache command is not part of the run: its directory is left alone.
ClearIdle == cache_root = TRUE /\ last_clear = NoClear

\* The token sync is not part of the run.
SyncIdle == css = <<>> /\ last_sync = <<>>

\* One invocation at a time.
RaceIdle == invocations = <<>>

CacheIdle ==
    /\ cache_files = <<>>
    /\ ttl = <<>>
    /\ now = 0
    /\ last_read = NoRead
    /\ last_write = NoWrite
    /\ client = NoClient
    /\ last_load = NoLoad

AddIdle ==
    /\ setup = <<>>
    /\ args = <<>>
    /\ disk = <<>>
    /\ package_json = <<>>
    /\ pm_calls = <<>>
    /\ phase = "idle"
    /\ run = 0
    /\ planned = <<>>
    /\ asked = <<>>
    /\ report = <<>>
    /\ history = <<>>
    /\ edits = 0

(***************************************************************************)
(* Generic helpers                                                         *)
(***************************************************************************)
BoundedSeq(S, n) == UNION {[1..k -> S] : k \in 0..n}

IsPrefix(p, s) == Len(p) <= Len(s) /\ \A i \in 1..Len(p) : p[i] = s[i]

Front(s) == SubSeq(s, 1, Len(s) - 1)

Last(s) == s[Len(s)]

(***************************************************************************)
(* Paths: std::path as the code uses it (Unix build)                       *)
(***************************************************************************)
ROOT == "/"

\* Path::components over the string whose raw segments are raw, from segment i on.
RECURSIVE ComponentsFrom(_, _)
ComponentsFrom(raw, i) ==
    IF i > Len(raw) THEN <<>>
    ELSE LET s == raw[i]
             keep == IF s = "" THEN FALSE
                     ELSE IF s = "." THEN i = 1
                     ELSE TRUE
         IN (IF keep THEN <<s>> ELSE <<>>) \o ComponentsFrom(raw, i + 1)

\* Path::new(s).components(): a leading '/' gives the root marker, repeated
\* separators and interior "." vanish, ".." and a leading "." are kept.
Components(raw) ==
    (IF Len(raw) >= 2 /\ raw[1] = "" THEN <<ROOT>> ELSE <<>>)
        \o ComponentsFrom(raw, 1)

IsNormal(c) == c \notin {ROOT, ".", ".."}

\* PathBuf::join: an absolute right-hand side replaces the left-hand side.
Join(base, rel) ==
    IF rel # <<>> /\ rel[1] = ROOT THEN rel
    ELSE IF base # <<>> /\ rel # <<>> /\ rel[1] = "." THEN base \o Tail(rel)
    ELSE base \o rel

\* The file the operating system reaches for a path: ".." steps to the parent
\* (the parent of the root is the root), "." stays.
RECURSIVE FsResolveFrom(_, _, _)
FsResolveFrom(path, i, acc) ==
    IF i > Len(path) THEN acc
    ELSE LET c == path[i]
             next == IF c = ROOT THEN <<ROOT>>
                     ELSE IF c = "." THEN acc
                     ELSE IF c = ".." THEN
                         (IF acc = <<ROOT>> THEN acc
                          ELSE IF acc = <<>> \/ Last(acc) = ".." THEN Append(acc, "..")
                          ELSE Front(acc))
                     ELSE Append(acc, c)
         IN FsResolveFrom(path, i + 1, next)

FsResolve(path) == FsResolveFrom(path, 1, <<>>)

\* Path::starts_with: component-wise prefix.
StartsWith(path, base) == IsPrefix(base, path)

\* The file a path reaches lies in the directory tree of root / strictly below root.
InsideRoot(path, root) == IsPrefix(FsResolve(root), FsResolve(path))

StrictlyInsideRoot(path, root) ==
    InsideRoot(path, root) /\ Len(FsResolve(path)) > Len(FsResolve(root))

(***************************************************************************)
(* core/src/paths.rs                                                       *)
(***************************************************************************)
\* A sanitizer that lets parent-directory components through (mutant).
sanitize_keeps_parent_dir(raw) ==
    SelectSeq(Components(raw), LAMBDA c : c # ROOT /\ c # ".")

sanitize_relative_path(raw) == SelectSeq(Components(raw), IsNormal)

workspace_path(workspace_root, configured) ==
    LET relative == sanitize_relative_path(configured)
    IN IF relative = <<>> THEN workspace_root ELSE Join(workspace_root, relative)

(***************************************************************************)
(* core/src/config.rs                                                      *)
(***************************************************************************)
default_component_filesystem == <<"src", "lib", "motion-core">>
default_helpers_filesystem == <<"src", "lib", "motion-core", "helpers">>
default_utils_filesystem == <<"src", "lib", "motion-core", "utils">>
default_assets_filesystem == <<"src", "lib", "motion-core", "assets">>
default_components_barrel == <<"src", "lib", "motion-core", "index.ts">>

DefaultConfig ==
    [aliases |-> [components |-> default_component_filesystem,
                  helpers |-> default_helpers_filesystem,
                  utils |-> default_utils_filesystem,
                  assets |-> default_assets_filesystem],
     barrel |-> default_components_barrel]

\* A hand-edited motion-core.json: every alias is a string the user typed.
HostileConfig ==
    [aliases |-> [components |-> <<"..", "shared">>,
                  helpers |-> <<"", "opt", "helpers">>,
                  utils |-> <<".", "src", "..", "utils">>,
                  assets |-> <<"">>],
     barrel |-> <<"..", "index.ts">>]

(***************************************************************************)
(* core/src/components.rs, cli/src/commands/add.rs: destinations           *)
(***************************************************************************)
Categories == {"components", "helpers", "utils", "assets"}

\* path.split_once('/'): the first raw segment and the rest of the string.
strip_category(path) ==
    IF Len(path) >= 2 /\ path[1] \in Categories THEN Tail(path) ELSE path

NoTarget == "none"

AliasBase(config, target) ==
    CASE target \in {"helper", "helpers"} -> config.aliases.helpers
      [] target = "utils" -> config.aliases.utils
      [] target \in {"asset", "assets"} -> config.aliases.assets
      [] target = "root" -> <<"">>
      [] OTHER -> config.aliases.components

resolve_component_destination(workspace_root, config, file) ==
    LET relative == strip_category(file.path)
        sanitized == sanitize_relative_path(relative)
        base == AliasBase(config, file.target)
        base_path == workspace_path(workspace_root, base)
    IN Join(base_path, sanitized)

\* The CLI's own copy: the registry path and the alias are joined as they are.
resolve_destination(workspace_root, config, file) ==
    LET relative == strip_category(file.path)
        sanitized == Components(relative)
        base == AliasBase(config, file.target)
    IN IF base = <<"">> THEN Join(workspace_root, sanitized)
       ELSE Join(Join(workspace_root, Components(base)), sanitized)

(***************************************************************************)
(* core/src/operations/add.rs, cli/src/commands/add.rs: dependency closure *)
(***************************************************************************)
\* Slugs are strings; a BTreeSet<String> iterates in lexicographic order,
\* which is the order of this list.
AllSlugs == <<"cn", "dup", "ghost", "grid", "halo", "twin">>

SlugRank(s) == CHOOSE i \in 1..Len(AllSlugs) : AllSlugs[i] = s

\* BTreeSet::into_iter().collect(): the elements in ascending order.
RECURSIVE SortedSeq(_)
SortedSeq(set) ==
    IF set = {} THEN <<>>
    ELSE LET least == CHOOSE s \in set : \A t \in set : SlugRank(s) <= SlugRank(t)
         IN <<least>> \o SortedSeq(set \ {least})

\* A loop body that forgets to push the dependencies (mutant).
ResolveStepNoDeps(q, done, catalog) ==
    LET slug == Last(q)
    IN IF slug \notin DOMAIN catalog
       THEN [queue |-> Front(q), resolved |-> done, err |-> slug]
       ELSE [queue |-> Front(q), resolved |-> done \cup {slug}, err |-> "none"]

\* A loop body with no visited check: every popped slug is expanded and all
\* its dependencies are pushed (mutant).
ResolveStepUnchecked(q, done, catalog) ==
    LET slug == Last(q)
    IN IF slug \notin DOMAIN catalog
       THEN [queue |-> Front(q), resolved |-> done, err |-> slug]
       ELSE [queue |-> Front(q) \o catalog[slug].internal_dependencies,
             resolved |-> done \cup {slug},
             err |-> "none"]

\* One iteration of `while let Some(slug) = queue.pop()`.
ResolveStep(q, done, catalog) ==
    LET slug == Last(q)
        rest == Front(q)
    IN IF slug \notin DOMAIN catalog
       THEN [queue |-> rest, resolved |-> done, err |-> slug]
       ELSE IF slug \notin done
       THEN LET seen == done \cup {slug}
                deps == catalog[slug].internal_dependencies
            IN [queue |-> rest \o SelectSeq(deps, LAMBDA dep : dep \notin seen),
                resolved |-> seen,
                err |-> "none"]
       ELSE [queue |-> rest, resolved |-> done, err |-> "none"]

\* A return that lists the set in descending order (mutant).
OrderOkDescending(set) ==
    [status |-> "ok",
     order |-> [i \in 1..Cardinality(set) |-> SortedSeq(set)[Cardinality(set) + 1 - i]],
     err |-> ""]

\* `Ok(resolved.into_iter().collect())`
OrderOk(set) == [status |-> "ok", order |-> SortedSeq(set), err |-> ""]

OrderErr(slug) == [status |-> "err", order |-> <<>>, err |-> slug]

RECURSIVE ResolveLoop(_, _, _)
ResolveLoop(q, done, catalog) ==
    IF q = <<>> THEN OrderOk(done)
    ELSE LET step == ResolveStep(q, done, catalog)
         IN IF step.err # "none" THEN OrderErr(step.err)
            ELSE ResolveLoop(step.queue, step.resolved, catalog)

resolve_install_order(request, catalog) == ResolveLoop(request, {}, catalog)

(***************************************************************************)
(* The dependency closure, one loop iteration per step                     *)
(***************************************************************************)
MaxRequest == 2

UnknownSlug == "ghost"

CatalogSlugs == {"cn", "grid", "halo"}

DepLists == {SortedSeq(set) : set \in SUBSET (CatalogSlugs \cup {UnknownSlug})}

BareRecord(deps) ==
    [name |-> "", files |-> <<>>, dependencies |-> <<>>,
     dev_dependencies |-> <<>>, internal_dependencies |-> deps]

OrderCatalogs == [CatalogSlugs -> {BareRecord(deps) : deps \in DepLists}]

OrderInit ==
    /\ ClearIdle
    /\ SyncIdle
    /\ RaceIdle
    /\ FnIdle
    /\ CacheIdle
    /\ AddIdle
    /\ components \in OrderCatalogs
    /\ requested \in BoundedSeq(CatalogSlugs \cup {UnknownSlug}, MaxRequest)
    /\ queue = requested
    /\ resolved = {}
    /\ order = OrderNone("running")

ResolveIterate ==
    /\ order.status = "running"
    /\ queue # <<>>
    /\ LET step == ResolveStep(queue, resolved, components)
       IN /\ queue' = step.queue
          /\ resolved' = step.resolved
          /\ order' = IF step.err # "none" THEN OrderErr(step.err) ELSE order
    /\ UNCHANGED <<components, requested, fnVars, cacheVars, addVars,
                   clearVars, syncVars, raceVars>>

ResolveReturn ==
    /\ order.status = "running"
    /\ queue = <<>>
    /\ order' = OrderOk(resolved)
    /\ UNCHANGED <<components, requested, queue, resolved, fnVars, cacheVars, addVars,
                   clearVars, syncVars, raceVars>>

OrderNext == ResolveIterate \/ ResolveReturn

SpecOrder == OrderInit /\ [][OrderNext]_vars

Returned == order.status \in {"ok", "err"}

SeqSet(s) == {s[i] : i \in 1..Len(s)}

NoDuplicates(s) == \A i, j \in 1..Len(s) : i # j => s[i] # s[j]

\* C1: when resolve_install_order returns an order, the order contains every
\* requested slug, contains no slug twice, and contains every declared
\* internal dependency of every slug it contains.
C1_InstallOrderClosed ==
    order.status = "ok" =>
        /\ SeqSet(requested) \subseteq SeqSet(order.order)
        /\ NoDuplicates(order.order)
        /\ \A s \in SeqSet(order.order) :
               /\ s \in DOMAIN components
               /\ SeqSet(components[s].internal_dependencies) \subseteq SeqSet(order.order)

\* The closure reaches a slug two dependency steps away from the request.
C1_Witness ==
    /\ order.status = "ok"
    /\ requested = <<"grid">>
    /\ components["grid"].internal_dependencies = <<"halo">>
    /\ components["halo"].internal_dependencies = <<"cn">>
    /\ order.order = <<"cn", "grid", "halo">>

(***************************************************************************)
(* core/src/cache.rs: the registry cache                                   *)
(***************************************************************************)
\* Times are in seconds (the source counts milliseconds).
DEFAULT_REGISTRY_TTL == 600
DEFAULT_ASSET_TTL == 86400
STALE_MAX_AGE == 2592000

REGISTRY_JSON == "registry.json"
COMPONENTS_JSON == "components.json"

ManifestKinds == {REGISTRY_JSON, COMPONENTS_JSON}

\* CacheStore::scoped: one directory per registry URL.
Scopes == {"registry-A"}

CacheKeys == Scopes \X ManifestKinds

MissingFile == [exists |-> FALSE, modified |-> 0, bytes |-> ""]

CachedFile(modified, bytes) == [exists |-> TRUE, modified |-> modified, bytes |-> bytes]

NoData == [some |-> FALSE, bytes |-> "", fresh |-> FALSE]

SomeData(bytes, fresh) == [some |-> TRUE, bytes |-> bytes, fresh |-> fresh]

\* A read that serves any file it finds while stale reads are allowed (mutant).
read_file_no_stale_limit(file, file_ttl, allow_stale, clock) ==
    IF ~file.exists \/ clock < file.modified THEN NoData
    ELSE IF clock - file.modified <= file_ttl THEN SomeData(file.bytes, TRUE)
    ELSE IF allow_stale THEN SomeData(file.bytes, FALSE)
    ELSE NoData

\* A read for which every file is fresh whatever its age (mutant).
read_file_ageless(file, file_ttl, allow_stale, clock) ==
    IF ~file.exists \/ clock < file.modified THEN NoData
    ELSE SomeData(file.bytes, TRUE)

read_file(file, file_ttl, allow_stale, clock) ==
    IF ~file.exists THEN NoData
    ELSE IF clock < file.modified THEN NoData
    ELSE LET age == clock - file.modified
         IN IF age <= file_ttl THEN SomeData(file.bytes, TRUE)
            ELSE IF allow_stale /\ age <= STALE_MAX_AGE THEN SomeData(file.bytes, FALSE)
            ELSE NoData

\* registry_manifest / components_manifest: each kind is read with its own TTL.
KindTtl(t, kind) == IF kind = REGISTRY_JSON THEN t.registry_ttl ELSE t.asset_ttl

\* read_duration: the environment's value if it parses as u64, else the default.
TtlChoices ==
    {[registry_ttl |-> DEFAULT_REGISTRY_TTL, asset_ttl |-> DEFAULT_ASSET_TTL],
     [registry_ttl |-> 0, asset_ttl |-> DEFAULT_REGISTRY_TTL],
     [registry_ttl |-> STALE_MAX_AGE + 1, asset_ttl |-> STALE_MAX_AGE + 1]}

CacheBytes == {"b1", "b2"}

\* The instants at which the clock is looked at: around every threshold.
TimePoints ==
    {0, 1,
     DEFAULT_REGISTRY_TTL, DEFAULT_REGISTRY_TTL + 1,
     DEFAULT_ASSET_TTL, DEFAULT_ASSET_TTL + 1,
     STALE_MAX_AGE, STALE_MAX_AGE + 1, STALE_MAX_AGE + 2}

\* A file left by an earlier run, or one whose mtime lies ahead of the clock.
InitialFiles ==
    {MissingFile} \cup {CachedFile(t, "b1") : t \in {0, DEFAULT_REGISTRY_TTL + 1}}

CacheInit ==
    /\ ClearIdle
    /\ SyncIdle
    /\ RaceIdle
    /\ FnIdle
    /\ OrderIdle
    /\ AddIdle
    /\ ttl \in TtlChoices
    /\ now = 0
    /\ cache_files \in [CacheKeys -> InitialFiles]
    /\ last_read = NoRead
    /\ last_write = NoWrite
    /\ client = NoClient
    /\ last_load = NoLoad

\* The clock moves on.
Advance ==
    /\ \E t \in TimePoints : t > now /\ now' = t
    /\ last_read' = NoRead
    /\ last_load' = NoLoad
    /\ UNCHANGED <<cache_files, ttl, last_write, client, fnVars, orderVars, addVars,
                   clearVars, syncVars, raceVars>>

\* A write that leaves a file it finds alone (mutant).
write_file_if_absent(file, bytes, clock, io_ok) ==
    IF io_ok /\ ~file.exists THEN [ok |-> TRUE, file |-> CachedFile(clock, bytes)]
    ELSE [ok |-> io_ok, file |-> file]

\* write_file: `create_dir_all(parent)?; fs::write(path, bytes)`; io_ok says
\* whether the file system lets both calls through.
write_file(file, bytes, clock, io_ok) ==
    IF io_ok THEN [ok |-> TRUE, file |-> CachedFile(clock, bytes)]
    ELSE [ok |-> FALSE, file |-> file]

\* `if let Err(err) = self.write_file(..) { tracing::warn!(..) }`: the
\* function returns (), whatever write_file returned.
WriteLogged(key, bytes, clock, result) ==
    [called |-> TRUE, key |-> key, bytes |-> bytes, at |-> clock, written |-> result.ok,
     logged |-> ~result.ok, propagated |-> FALSE]

\* write_registry_manifest / write_components_manifest
write_manifest(files, key, bytes, clock, io_ok) ==
    [files |-> [files EXCEPT ![key] = write_file(files[key], bytes, clock, io_ok).file],
     outcome |-> WriteLogged(key, bytes, clock, write_file(files[key], bytes, clock, io_ok))]

Written(result) ==
    /\ cache_files' = result.files
    /\ last_write' = result.outcome

CacheWrite ==
    /\ \E key \in CacheKeys, bytes \in CacheBytes, io_ok \in BOOLEAN :
           Written(write_manifest(cache_files, key, bytes, now, io_ok))
    /\ last_read' = NoRead
    /\ UNCHANGED <<ttl, now, client, last_load, fnVars, orderVars, addVars,
                   clearVars, syncVars, raceVars>>

\* CacheStore::clear: the root is removed and created again.
CacheClear ==
    /\ cache_files' = [key \in CacheKeys |-> MissingFile]
    /\ last_read' = NoRead
    /\ last_write' = NoWrite
    /\ UNCHANGED <<ttl, now, client, last_load, fnVars, orderVars, addVars,
                   clearVars, syncVars, raceVars>>

\* registry_manifest(allow_stale) / components_manifest(allow_stale)
CacheRead ==
    /\ \E key \in CacheKeys, allow_stale \in BOOLEAN :
           LET data == read_file(cache_files[key], KindTtl(ttl, key[2]), allow_stale, now)
           IN last_read' = [called |-> TRUE, key |-> key, allow_stale |-> allow_stale,
                            some |-> data.some, bytes |-> data.bytes, fresh |-> data.fresh]
    /\ UNCHANGED <<cache_files, ttl, now, last_write, client, last_load,
                   fnVars, orderVars, addVars,
                   clearVars, syncVars, raceVars>>

CacheNext == Advance \/ CacheWrite \/ CacheClear \/ CacheRead

SpecCache == CacheInit /\ [][CacheNext]_vars

ReadFile == cache_files[last_read.key]

ReadTtl == KindTtl(ttl, last_read.key[2])

\* The age of the file just read is defined (its mtime is not ahead of the clock).
ReadAged == ReadFile.exists /\ ReadFile.modified <= now

ReadAge == now - ReadFile.modified

\* C10: a read returns the file's bytes with fresh = true when the file's age
\* is at most the kind's TTL; otherwise with fresh = false when allow_stale is
\* set and the age is at most 30 days; otherwise nothing. Without allow_stale
\* no read returns fresh = false data, and a missing file gives nothing.
C10_ReadPolicy ==
    last_read.called =>
        /\ (ReadAged /\ ReadAge <= ReadTtl) =>
               (last_read.some /\ last_read.fresh /\ last_read.bytes = ReadFile.bytes)
        /\ (ReadAged /\ ReadAge > ReadTtl /\ last_read.allow_stale
                /\ ReadAge <= STALE_MAX_AGE) =>
               (last_read.some /\ ~last_read.fresh /\ last_read.bytes = ReadFile.bytes)
        /\ (ReadAged /\ ReadAge > ReadTtl
                /\ ~(last_read.allow_stale /\ ReadAge <= STALE_MAX_AGE)) =>
               ~last_read.some
        /\ (~last_read.allow_stale /\ last_read.some) => last_read.fresh
        /\ ~ReadFile.exists => ~last_read.some

\* A stale read at exactly the 30-day limit, one second past which nothing is served.
C10_Witness ==
    /\ last_read.called
    /\ last_read.allow_stale
    /\ ReadAged /\ ReadAge = STALE_MAX_AGE /\ ReadAge > ReadTtl
    /\ last_read.some /\ ~last_read.fresh

\* The read just made is of the key last written, and that write went through.
ReadOfWritten ==
    /\ last_read.called
    /\ last_write.called
    /\ last_write.written
    /\ last_read.key = last_write.key

\* C11: after a successful write of bytes b for a kind in a scope, a read of
\* that kind in that scope within the kind's TTL returns exactly b with
\* fresh = true, with and without allow_stale; the write replaces whatever
\* the file held, and no write, failed or not, returns an error to its caller.
C11_WriteThenRead ==
    /\ (ReadOfWritten /\ now - last_write.at <= ReadTtl)
          => /\ last_read.some
             /\ last_read.fresh
             /\ last_read.bytes = last_write.bytes
    /\ (last_write.called /\ last_write.written)
          => cache_files[last_write.key] = CachedFile(last_write.at, last_write.bytes)
    /\ ~last_write.propagated
    /\ (last_write.called /\ ~last_write.written) => last_write.logged

\* A write over a file holding other bytes, read back later within the TTL
\* without allow_stale.
C11_Witness ==
    /\ ReadOfWritten
    /\ last_write.bytes = "b2"
    /\ last_write.at < now
    /\ now - last_write.at <= ReadTtl
    /\ ~last_read.allow_stale
    /\ last_read.some /\ last_read.fresh /\ last_read.bytes = "b2"

(***************************************************************************)
(* Destination resolution as a checked function                            *)
(***************************************************************************)
MaxPathLen == 3

PathSegments == {"", ".", "..", "components", "etc"}

\* The registry paths of the repository's own tests and of the specification.
TraversalPath == <<"..", "..", "..", "etc", "passwd">>

NamedPaths ==
    {TraversalPath,
     <<"components", "..", "..", "..", "..", "etc", "passwd">>,
     <<"components", "", "tmp", "evil">>,
     <<"components", ".", "..", ".", "app", "secret.ts">>,
     <<"..", "..", "..", "..", "etc", "passwd">>,
     <<"components", "glass-pane", "GlassPane.svelte">>}

RegistryPaths == (BoundedSeq(PathSegments, MaxPathLen) \ {<<>>}) \cup NamedPaths

Targets == {NoTarget, "helper", "helpers", "utils", "asset", "assets", "root", "other"}

\* CommandContext::discover canonicalizes the workspace root.
WorkspaceRoots == {<<ROOT, "workspace">>, <<ROOT, "home", "proj">>}

PathInit ==
    /\ ClearIdle
    /\ SyncIdle
    /\ RaceIdle
    /\ OrderIdle
    /\ CacheIdle
    /\ AddIdle
    /\ call = "none"
    /\ ret = "none"
    /\ arg \in [workspace_root : WorkspaceRoots,
                config : {DefaultConfig, HostileConfig},
                file : [path : RegistryPaths, target : Targets]]

CoreResolve ==
    /\ call = "none"
    /\ call' = "resolve_component_destination"
    /\ ret' = resolve_component_destination(arg.workspace_root, arg.config, arg.file)
    /\ UNCHANGED <<arg, orderVars, cacheVars, addVars,
                   clearVars, syncVars, raceVars>>

CliResolve ==
    /\ call = "none"
    /\ call' = "resolve_destination"
    /\ ret' = resolve_destination(arg.workspace_root, arg.config, arg.file)
    /\ UNCHANGED <<arg, orderVars, cacheVars, addVars,
                   clearVars, syncVars, raceVars>>

PathNext == CoreResolve \/ CliResolve

SpecPath == PathInit /\ [][PathNext]_vars

HasParentDir(raw) == \E i \in 1..Len(raw) : raw[i] = ".."

\* C4: the destination the core resolves for any workspace root, alias
\* configuration, target tag and registry path has the workspace root as a
\* prefix, holds no parent-directory component, and so reaches a file inside
\* the workspace root.
C4_DestinationInsideRoot ==
    call = "resolve_component_destination" =>
        /\ StartsWith(ret, arg.workspace_root)
        /\ \A i \in 1..Len(ret) : ret[i] # ".."
        /\ InsideRoot(ret, arg.workspace_root)

C4_Witness ==
    /\ call = "resolve_component_destination"
    /\ arg.file.path = <<"components", "..", "..", "..", "..", "etc", "passwd">>
    /\ arg.config = HostileConfig
    /\ ret = <<ROOT, "workspace", "shared", "etc", "passwd">>

\* C5: in the CLI add command a registry path with parent-directory segments
\* (such as "../../../etc/passwd") gets a destination strictly inside the
\* workspace root.
C5_CliDestinationInsideRoot ==
    (call = "resolve_destination" /\ HasParentDir(arg.file.path)) =>
        StrictlyInsideRoot(ret, arg.workspace_root)

(***************************************************************************)
(* Names: file names, slugs and export names as the code splits them       *)
(***************************************************************************)
\* identifier.split(|c| !c.is_ascii_alphanumeric()) without the empty parts.
Words(identifier) ==
    CASE identifier = "twin-item" -> <<"twin", "item">>
      [] identifier = "" -> <<>>
      [] OTHER -> <<identifier>>

\* first.to_ascii_uppercase() followed by the rest of the segment.
Capitalized(word) ==
    CASE word = "cn" -> "Cn"
      [] word = "dup" -> "Dup"
      [] word = "grid" -> "Grid"
      [] word = "halo" -> "Halo"
      [] word = "twin" -> "Twin"
      [] word = "item" -> "Item"
      [] word = "types" -> "Types"
      [] OTHER -> word

RECURSIVE ConcatWords(_)
ConcatWords(words) ==
    IF words = <<>> THEN "" ELSE Capitalized(Head(words)) \o ConcatWords(Tail(words))

format_export_name(identifier) == ConcatWords(Words(identifier))

\* Path::file_stem and the extension test of is_svelte_file, per file name.
FileNames ==
    [name \in {"cn.ts", "Grid.svelte", "types.ts", "Halo.svelte", "Dup.svelte",
               "twin-item.svelte", "twin.svelte"} |->
        CASE name = "cn.ts" -> [stem |-> "cn", svelte |-> FALSE]
          [] name = "Grid.svelte" -> [stem |-> "Grid", svelte |-> TRUE]
          [] name = "types.ts" -> [stem |-> "types", svelte |-> FALSE]
          [] name = "Halo.svelte" -> [stem |-> "Halo", svelte |-> TRUE]
          [] name = "Dup.svelte" -> [stem |-> "Dup", svelte |-> TRUE]
          [] name = "twin-item.svelte" -> [stem |-> "twin-item", svelte |-> TRUE]
          [] name = "twin.svelte" -> [stem |-> "twin", svelte |-> TRUE]]

file_stem(path) == FileNames[Last(path)].stem

entry_export_name(slug, entry_path, index) ==
    IF index = 0 THEN format_export_name(slug)
    ELSE format_export_name(file_stem(entry_path))

NoKind == "none"

is_entry_file(file) == file.kind = "entry"

is_svelte_file(file) == FileNames[Last(file.path)].svelte

\* BTreeMap<String, String> iterates its keys in this order.
AllExportNames ==
    <<"Cn", "Dup", "Grid", "GridProps", "Halo", "Legacy", "LegacyProps", "Twin", "TwinItem">>

ExportNameRank(n) == CHOOSE i \in 1..Len(AllExportNames) : AllExportNames[i] = n

(***************************************************************************)
(* File contents                                                           *)
(***************************************************************************)
\* A file's text is its sequence of lines. A line is a default re-export
\* (`export { default as N } from R`), a type re-export of one name
\* (`export type { N } from R`) or of several (`export type { N, M } from R`),
\* or any other text. R, what follows `from`, is kept as its tokens: the
\* quote or quotes before the path, the path's '/'-separated parts, and what
\* closes the line.
TextLine(text) == [kind |-> "text", name |-> text, from |-> <<>>]

RawLine(kind, name, open, import, close) ==
    [kind |-> kind, name |-> name, from |-> open \o import \o close]

\* format!("export {{ default as {} }} from \"{}\";", name, import)
ComponentLine(name, import) == RawLine("component", name, <<"\"">>, import, <<"\";">>)

\* format!("export type {{ {} }} from \"{}\";", name, import)
TypeLine(name, import) == RawLine("type", name, <<"\"">>, import, <<"\";">>)

\* `export type { N, M } from "P";` as a hand-edited barrel may hold it.
TypesLine(names, import) == RawLine("types", names, <<"\"">>, import, <<"\";">>)

\* The bytes of a source file: text with no re-export line in it.
Source(text) == <<TextLine(text)>>

(***************************************************************************)
(* core/src/registry.rs: the catalog and the component-file manifest       *)
(***************************************************************************)
NoDeps == [k \in {} |-> ""]

FileRecord(path, target, kind, type_exports) ==
    [path |-> path, target |-> target, kind |-> kind, type_exports |-> type_exports]

CnRecord ==
    [name |-> "cn",
     files |-> <<FileRecord(<<"utils", "cn.ts">>, "utils", NoKind, <<>>)>>,
     dependencies |-> NoDeps, dev_dependencies |-> NoDeps,
     internal_dependencies |-> <<>>]

GridRecord ==
    [name |-> "Grid",
     files |-> <<FileRecord(<<"components", "grid", "Grid.svelte">>, NoTarget, "entry", <<>>),
                 FileRecord(<<"components", "grid", "types.ts">>, NoTarget, NoKind,
                            <<"GridProps", "">>)>>,
     dependencies |-> [k \in {"gsap"} |-> "^3.12.0"],
     dev_dependencies |-> [k \in {"vitest"} |-> "^3.0.0"],
     internal_dependencies |-> <<"cn">>]

\* A component whose internal dependency is not in the catalog.
HaloRecord ==
    [name |-> "Halo",
     files |-> <<FileRecord(<<"components", "halo", "Halo.svelte">>, NoTarget, NoKind, <<>>)>>,
     dependencies |-> NoDeps, dev_dependencies |-> NoDeps,
     internal_dependencies |-> <<"ghost">>]

\* Two registry paths that differ only in the category prefix.
DupRecord ==
    [name |-> "Dup",
     files |-> <<FileRecord(<<"components", "dup", "Dup.svelte">>, NoTarget, NoKind, <<>>),
                 FileRecord(<<"dup", "Dup.svelte">>, NoTarget, NoKind, <<>>)>>,
     dependencies |-> NoDeps, dev_dependencies |-> NoDeps,
     internal_dependencies |-> <<>>]

\* Two entry files, the second one named after the slug.
TwinRecord ==
    [name |-> "Twin",
     files |-> <<FileRecord(<<"components", "twin", "twin-item.svelte">>, NoTarget, "entry", <<>>),
                 FileRecord(<<"components", "twin", "twin.svelte">>, NoTarget, "entry", <<>>)>>,
     dependencies |-> NoDeps, dev_dependencies |-> NoDeps,
     internal_dependencies |-> <<>>]

Catalog ==
    [slug \in {"cn", "dup", "grid", "halo", "twin"} |->
        CASE slug = "cn" -> CnRecord
          [] slug = "dup" -> DupRecord
          [] slug = "grid" -> GridRecord
          [] slug = "halo" -> HaloRecord
          [] slug = "twin" -> TwinRecord]

\* base64 (standard alphabet, padded) of the texts that occur as file contents.
Base64Texts ==
    [encoded \in {"Y24udHM=", "R3JpZC5zdmVsdGU=", "dHlwZXMudHM=", "SGFsby5zdmVsdGU=",
                  "RHVwLnN2ZWx0ZQ==", "ZHVwLWxlZ2FjeQ==", "dHdpbi1pdGVtLnN2ZWx0ZQ==",
                  "dHdpbi5zdmVsdGU="} |->
        CASE encoded = "Y24udHM=" -> "cn.ts"
          [] encoded = "R3JpZC5zdmVsdGU=" -> "Grid.svelte"
          [] encoded = "dHlwZXMudHM=" -> "types.ts"
          [] encoded = "SGFsby5zdmVsdGU=" -> "Halo.svelte"
          [] encoded = "RHVwLnN2ZWx0ZQ==" -> "Dup.svelte"
          [] encoded = "ZHVwLWxlZ2FjeQ==" -> "dup-legacy"
          [] encoded = "dHdpbi1pdGVtLnN2ZWx0ZQ==" -> "twin-item.svelte"
          [] encoded = "dHdpbi5zdmVsdGU=" -> "twin.svelte"]

\* general_purpose::STANDARD.decode, for the strings that occur: any other
\* string here has a character outside the alphabet or a wrong length.
STANDARD_decode(encoded) ==
    IF encoded \in DOMAIN Base64Texts
    THEN [ok |-> TRUE, bytes |-> Source(Base64Texts[encoded])]
    ELSE [ok |-> FALSE, bytes |-> <<>>]

\* components.json: registry path -> base64 of the file's bytes.
Manifest ==
    [path \in {<<"utils", "cn.ts">>,
               <<"components", "grid", "Grid.svelte">>,
               <<"components", "grid", "types.ts">>,
               <<"components", "halo", "Halo.svelte">>,
               <<"components", "dup", "Dup.svelte">>,
               <<"dup", "Dup.svelte">>,
               <<"components", "twin", "twin-item.svelte">>,
               <<"components", "twin", "twin.svelte">>} |->
        CASE path = <<"utils", "cn.ts">> -> "Y24udHM="
          [] path = <<"components", "grid", "Grid.svelte">> -> "R3JpZC5zdmVsdGU="
          [] path = <<"components", "grid", "types.ts">> -> "dHlwZXMudHM="
          [] path = <<"components", "halo", "Halo.svelte">> -> "SGFsby5zdmVsdGU="
          [] path = <<"components", "dup", "Dup.svelte">> -> "RHVwLnN2ZWx0ZQ=="
          [] path = <<"dup", "Dup.svelte">> -> "ZHVwLWxlZ2FjeQ=="
          [] path = <<"components", "twin", "twin-item.svelte">> -> "dHdpbi1pdGVtLnN2ZWx0ZQ=="
          [] path = <<"components", "twin", "twin.svelte">> -> "dHdpbi5zdmVsdGU="]

TheRegistry == [components |-> Catalog, manifest |-> Manifest]

\* A lookup that hands out the manifest's value as it stands (mutant).
fetch_component_file_undecoded(reg, path) ==
    IF path \notin DOMAIN reg.manifest
    THEN [ok |-> FALSE, variant |-> "AssetNotFound", path |-> path, bytes |-> <<>>]
    ELSE [ok |-> TRUE, variant |-> "", path |-> path, bytes |-> Source(reg.manifest[path])]

\* RegistryClient::fetch_component_file, once the manifest is loaded.
fetch_component_file(reg, path) ==
    IF path \notin DOMAIN reg.manifest
    THEN [ok |-> FALSE, variant |-> "AssetNotFound", path |-> path, bytes |-> <<>>]
    ELSE IF ~STANDARD_decode(reg.manifest[path]).ok
    THEN [ok |-> FALSE, variant |-> "Decode", path |-> path, bytes |-> <<>>]
    ELSE [ok |-> TRUE, variant |-> "", path |-> path,
          bytes |-> STANDARD_decode(reg.manifest[path]).bytes]

(***************************************************************************)
(* core/src/registry.rs: the remote backend and its cache                  *)
(***************************************************************************)
\* What one GET of a manifest URL meets: no connection or a timeout (sent
\* is false), or a response with a status whose body can or cannot be read.
Response(sent, status, readable, body) ==
    [sent |-> sent, status |-> status, readable |-> readable, body |-> body]

NetworkResponses ==
    {Response(FALSE, 0, FALSE, ""),
     Response(TRUE, 404, TRUE, ""),
     Response(TRUE, 500, TRUE, ""),
     Response(TRUE, 200, FALSE, ""),
     Response(TRUE, 200, TRUE, "b1"),
     Response(TRUE, 200, TRUE, "b2"),
     Response(TRUE, 200, TRUE, "junk")}

FetchErr(variant) == [status |-> "err", variant |-> variant, bytes |-> ""]

FetchNone == [status |-> "none", variant |-> "", bytes |-> ""]

FetchSome(bytes) == [status |-> "some", variant |-> "", bytes |-> bytes]

\* A fetch for which 404 is one more error status (mutant).
fetch_remote_json_no_404(response) ==
    IF ~response.sent THEN FetchErr("Network")
    ELSE IF response.status >= 400 THEN FetchNone
    ELSE IF ~response.readable THEN FetchErr("Network")
    ELSE FetchSome(response.body)

\* fetch_remote_json: Err(Network) when send fails, Err(NotFound) on 404,
\* Ok(None) on any other error status, else the body.
fetch_remote_json(response) ==
    IF ~response.sent THEN FetchErr("Network")
    ELSE IF response.status = 404 THEN FetchErr("NotFound")
    ELSE IF response.status >= 400 THEN FetchNone
    ELSE IF ~response.readable THEN FetchErr("Network")
    ELSE FetchSome(response.body)

\* serde_json::from_slice: the documents that are well-formed for both
\* manifest types.
Parses(bytes) == bytes \in {"b1", "b2"}

Ok(bytes) == [ok |-> TRUE, variant |-> "", bytes |-> bytes]

Err(variant) == [ok |-> FALSE, variant |-> variant, bytes |-> ""]

\* parse_registry_entry / serde_json::from_slice::<Registry>
parse_registry_entry(bytes) == IF Parses(bytes) THEN Ok(bytes) ELSE Err("Parse")

\* A manifest with a value that is not base64 and without most paths.
SparseManifest ==
    [path \in {<<"utils", "cn.ts">>, <<"components", "grid", "Grid.svelte">>} |->
        IF path = <<"utils", "cn.ts">> THEN "Y24udHM=" ELSE "R3Jp*C5zdmVsdGU"]

\* The HashMap<String, String> a well-formed components.json holds.
ManifestOf(bytes) == IF bytes = "b1" THEN Manifest ELSE SparseManifest

\* parse_component_manifest / serde_json::from_slice::<HashMap<String, String>>
parse_component_manifest(bytes) == IF Parses(bytes) THEN Ok(bytes) ELSE Err("Parse")

\* `if let Some(cache) = &self.cache { cache.registry_manifest(allow_stale) }`
CacheEntry(has_cache, file, file_ttl, allow_stale, clock) ==
    IF has_cache THEN read_file(file, file_ttl, allow_stale, clock) ELSE NoData

\* What a load did and returned: the network requests made, whether the
\* stale read was made, the cache after it and the write it made, if any.
Loaded(result, requests, stale_read, files, write) ==
    [result |-> result, requests |-> requests, fresh_read |-> FALSE,
     stale_read |-> stale_read, files |-> files, write |-> write]

\* load_registry_from_cache_with_fallback / load_components_from_cache_with_fallback
load_from_cache_with_fallback(entry, files) ==
    Loaded(IF entry.some THEN parse_registry_entry(entry.bytes) ELSE Err("Network"),
           1, TRUE, files, NoWrite)

\* `Some(bytes) => { cache.write_..(&bytes); serde_json::from_slice(&bytes) }`
LoadFetched(has_cache, files, key, bytes, clock, io_ok) ==
    IF has_cache
    THEN Loaded(parse_registry_entry(bytes), 1, FALSE,
                write_manifest(files, key, bytes, clock, io_ok).files,
                write_manifest(files, key, bytes, clock, io_ok).outcome)
    ELSE Loaded(parse_registry_entry(bytes), 1, FALSE, files, NoWrite)

\* `match fetch_remote_json(client, &url)? { Some(bytes) => .., None => .. }`
LoadRemote(fetched, has_cache, files, key, file_ttl, clock, io_ok) ==
    IF fetched.status = "err" THEN Loaded(Err(fetched.variant), 1, FALSE, files, NoWrite)
    ELSE IF fetched.status = "some"
    THEN LoadFetched(has_cache, files, key, fetched.bytes, clock, io_ok)
    ELSE load_from_cache_with_fallback(
             CacheEntry(has_cache, files[key], file_ttl, TRUE, clock), files)

\* `cache.registry_manifest(false)` was called: the load read the cache.
FreshRead(loaded, has_cache) == [loaded EXCEPT !.fresh_read = has_cache]

\* The fresh cache entry, when there is one and it parses.
LoadCached(entry, fetched, has_cache, files, key, file_ttl, clock, io_ok) ==
    IF entry.some /\ parse_registry_entry(entry.bytes).ok
    THEN FreshRead(Loaded(Ok(entry.bytes), 0, FALSE, files, NoWrite), has_cache)
    ELSE FreshRead(LoadRemote(fetched, has_cache, files, key, file_ttl, clock, io_ok),
                   has_cache)

\* load_registry on the remote backend; response is what the GET meets if it
\* is made, io_ok whether the cache can be written.
load_registry(has_cache, files, key, ttls, clock, response, io_ok) ==
    LoadCached(CacheEntry(has_cache, files[key], KindTtl(ttls, key[2]), FALSE, clock),
               fetch_remote_json(response), has_cache, files, key,
               KindTtl(ttls, key[2]), clock, io_ok)

\* `self.component_manifest.replace(Some(map))` on every Ok path.
Memoized(loaded) ==
    [loaded |-> loaded,
     component_manifest |->
         IF loaded.result.ok
         THEN [some |-> TRUE, map |-> ManifestOf(loaded.result.bytes)]
         ELSE NoManifest]

\* A load that does not look at the manifest held in memory (mutant).
load_component_manifest_unmemoized(held, has_cache, files, key, ttls, clock, response, io_ok) ==
    Memoized(LoadCached(
                 CacheEntry(has_cache, files[key], KindTtl(ttls, key[2]), FALSE, clock),
                 fetch_remote_json(response), has_cache, files, key,
                 KindTtl(ttls, key[2]), clock, io_ok))

\* load_component_manifest on the remote backend: the manifest held in
\* memory if there is one, else as load_registry with the asset TTL.
load_component_manifest(held, has_cache, files, key, ttls, clock, response, io_ok) ==
    IF held.some
    THEN [loaded |-> Loaded(Ok(""), 0, FALSE, files, NoWrite), component_manifest |-> held]
    ELSE Memoized(LoadCached(
                      CacheEntry(has_cache, files[key], KindTtl(ttls, key[2]), FALSE, clock),
                      fetch_remote_json(response), has_cache, files, key,
                      KindTtl(ttls, key[2]), clock, io_ok))

\* The times at which the client is used: at once, after both TTLs have run
\* out, and after the 30 days.
LoadTimes == {0, DEFAULT_ASSET_TTL + 1, STALE_MAX_AGE + 1}

\* What an earlier run left in the cache.
LoadFiles == {MissingFile, CachedFile(0, "b1"), CachedFile(0, "junk")}

\* Whether the cache directory can be written matters when a body arrived.
IoChoices(response) ==
    IF response.sent /\ response.status = 200 /\ response.readable THEN BOOLEAN ELSE {TRUE}

FetchPaths ==
    {<<"utils", "cn.ts">>, <<"components", "grid", "Grid.svelte">>,
     <<"components", "grid", "types.ts">>}

LoadInit ==
    /\ ClearIdle
    /\ SyncIdle
    /\ RaceIdle
    /\ FnIdle
    /\ OrderIdle
    /\ AddIdle
    /\ ttl = [registry_ttl |-> DEFAULT_REGISTRY_TTL, asset_ttl |-> DEFAULT_ASSET_TTL]
    /\ now = 0
    /\ cache_files \in [CacheKeys -> LoadFiles]
    /\ last_read = NoRead
    /\ last_write = NoWrite
    /\ client \in [has_cache : BOOLEAN, component_manifest : {NoManifest}]
    /\ last_load = NoLoad

LoadAdvance ==
    /\ \E t \in LoadTimes : t > now /\ now' = t
    /\ last_load' = NoLoad
    /\ UNCHANGED <<cache_files, ttl, last_read, last_write, client,
                   fnVars, orderVars, addVars,
                   clearVars, syncVars, raceVars>>

\* The call made, with the world it met and the world it leaves.
Called(name, key, response, loaded, held, file) ==
    /\ cache_files' = loaded.files
    /\ last_write' = IF loaded.write.called THEN loaded.write ELSE last_write
    /\ client' = [client EXCEPT !.component_manifest = held]
    /\ last_load' = [called |-> TRUE, call |-> name, key |-> key, response |-> response,
                     requests |-> loaded.requests, fresh_read |-> loaded.fresh_read,
                     stale_read |-> loaded.stale_read,
                     before |-> cache_files[key], held |-> client.component_manifest,
                     preloaded |-> NoManifest,
                     result |-> loaded.result, file |-> file]
    /\ UNCHANGED <<ttl, now, last_read, fnVars, orderVars, addVars,
                   clearVars, syncVars, raceVars>>

\* list_components / summary / base_dependencies: `self.load_registry()?`
LoadRegistry ==
    \E scope \in Scopes, response \in NetworkResponses :
      \E io_ok \in IoChoices(response) :
        Called("load_registry", <<scope, REGISTRY_JSON>>, response,
               load_registry(client.has_cache, cache_files, <<scope, REGISTRY_JSON>>, ttl,
                             now, response, io_ok),
               client.component_manifest, NoFile)

ManifestCalled(name, key, response, memoized, file) ==
    Called(name, key, response, memoized.loaded, memoized.component_manifest, file)

\* `let manifest = self.load_component_manifest()?; manifest.get(path) ..`
FileOf(memoized, path) ==
    IF ~memoized.loaded.result.ok
    THEN [ok |-> FALSE, variant |-> memoized.loaded.result.variant, path |-> path,
          bytes |-> <<>>]
    ELSE fetch_component_file([manifest |-> memoized.component_manifest.map], path)

FileCalled(key, response, memoized, path) ==
    ManifestCalled("fetch_component_file", key, response, memoized, FileOf(memoized, path))

\* RegistryClient::fetch_component_file(path)
FetchComponentFile ==
    \E scope \in Scopes, response \in NetworkResponses, path \in FetchPaths :
      \E io_ok \in IoChoices(response) :
        FileCalled(<<scope, COMPONENTS_JSON>>, response,
                   load_component_manifest(client.component_manifest, client.has_cache,
                                           cache_files, <<scope, COMPONENTS_JSON>>, ttl, now,
                                           response, io_ok),
                   path)

\* A preload that keeps a manifest the client already holds (mutant).
preload_if_vacant(held, manifest) ==
    IF held.some THEN held ELSE [some |-> TRUE, map |-> manifest]

\* `self.component_manifest.replace(Some(manifest))`
preload_component_manifest(held, manifest) == [some |-> TRUE, map |-> manifest]

\* RegistryClient::preload_component_manifest; no load is made, the call
\* and its argument are noted.
PreloadComponentManifest ==
    /\ \E manifest \in {Manifest, SparseManifest} :
           /\ client' = [client EXCEPT !.component_manifest =
                                           preload_component_manifest(@, manifest)]
           /\ last_load' = [NoLoad EXCEPT !.call = "preload_component_manifest",
                                          !.held = client.component_manifest,
                                          !.preloaded = [some |-> TRUE, map |-> manifest]]
    /\ UNCHANGED <<cache_files, ttl, now, last_read, last_write, fnVars, orderVars, addVars,
                   clearVars, syncVars, raceVars>>

LoadNext == LoadAdvance \/ LoadRegistry \/ FetchComponentFile \/ PreloadComponentManifest

SpecLoad == LoadInit /\ [][LoadNext]_vars

\* The call just made went to the cache and the network for a manifest.
LoadCalled == last_load.called /\ ~last_load.held.some

LoadTtl == KindTtl(ttl, last_load.key[2])

\* The cache entry the call met: its age is defined and it parses.
EntryUsable ==
    /\ client.has_cache
    /\ last_load.before.exists
    /\ last_load.before.modified <= now
    /\ Parses(last_load.before.bytes)

FreshUsable == EntryUsable /\ now - last_load.before.modified <= LoadTtl

StaleUsable == EntryUsable /\ now - last_load.before.modified <= STALE_MAX_AGE

ReturnedCached == last_load.result = Ok(last_load.before.bytes)

GotBody ==
    last_load.response.sent /\ last_load.response.status = 200 /\ last_load.response.readable

Got404 == last_load.response.sent /\ last_load.response.status = 404

\* The request failed: no response at all, or an error status other than 404.
RequestFailed ==
    \/ ~last_load.response.sent
    \/ last_load.response.status >= 400 /\ last_load.response.status # 404

\* C12: loading the catalog tries a fresh cache entry first, returned without
\* a network request when it parses; then the network, whose body is written
\* to the cache; then a cache entry of at most 30 days; and fails only when
\* all three fail (a 404 being the failure the spec sets apart).
C12_LoadOrder ==
    (LoadCalled /\ last_load.call = "load_registry")
       => /\ FreshUsable => (ReturnedCached /\ last_load.requests = 0)
          /\ ~FreshUsable => last_load.requests = 1
          /\ (~FreshUsable /\ GotBody)
                => /\ last_load.result = parse_registry_entry(last_load.response.body)
                   /\ client.has_cache
                         => /\ last_write.called
                            /\ last_write.key = last_load.key
                            /\ last_write.bytes = last_load.response.body
          /\ (~FreshUsable /\ ~GotBody /\ ~Got404 /\ StaleUsable) => ReturnedCached
          /\ ~last_load.result.ok
                => /\ ~FreshUsable
                   /\ \/ GotBody /\ ~Parses(last_load.response.body)
                      \/ Got404
                      \/ ~GotBody /\ ~StaleUsable

\* C13: when the request for the catalog fails, by a transport failure or by
\* an error status other than 404, and the cache holds a catalog of at most
\* 30 days, the load returns that catalog; a Network error is returned only
\* after the stale read found nothing.
C13_StaleBeforeNetworkError ==
    (LoadCalled /\ last_load.call = "load_registry" /\ last_load.requests = 1)
       => /\ (RequestFailed /\ StaleUsable) => ReturnedCached
          /\ last_load.result = Err("Network")
                => (client.has_cache => last_load.stale_read) /\ ~StaleUsable

\* What the code does: only an error status makes it read the stale entry.
C13_StaleOnErrorStatus ==
    (LoadCalled /\ last_load.call = "load_registry" /\ last_load.requests = 1)
       => /\ (last_load.response.sent /\ RequestFailed /\ StaleUsable) => ReturnedCached
          /\ ~last_load.response.sent
                => last_load.result = Err("Network") /\ ~last_load.stale_read

\* C14: a 404 for the catalog or for the component-file manifest gives
\* RegistryError::NotFound, and the stale cache entry is not read, usable or not.
C14_NotFoundIsHard ==
    (LoadCalled /\ last_load.requests = 1 /\ Got404)
       => /\ last_load.result = Err("NotFound")
          /\ ~last_load.stale_read
          /\ cache_files[last_load.key] = last_load.before

\* A 404 met while the cache holds a parsable entry that is stale but not
\* 30 days old, for either manifest.
C14_Witness ==
    /\ LoadCalled /\ last_load.requests = 1 /\ Got404
    /\ StaleUsable /\ ~FreshUsable
    /\ last_load.result = Err("NotFound")
    /\ last_load.call = "fetch_component_file"

\* The manifest the client holds once the call has loaded it.
LoadedManifest == client.component_manifest.map

FileErr(variant) ==
    [ok |-> FALSE, variant |-> variant, path |-> last_load.file.path, bytes |-> <<>>]

\* C15: fetch_component_file(path) fails with AssetNotFound(path) when path is
\* not a key of the loaded manifest, with Decode when the key's value is not
\* base64, and gives the decoded bytes of the key's value otherwise; a failed
\* lookup leaves the loaded manifest as it was.
C15_FetchComponentFile ==
    (last_load.called /\ last_load.call = "fetch_component_file" /\ last_load.result.ok)
       => /\ client.component_manifest.some
          /\ last_load.file.path \notin DOMAIN LoadedManifest
                => last_load.file = FileErr("AssetNotFound")
          /\ (/\ last_load.file.path \in DOMAIN LoadedManifest
              /\ LoadedManifest[last_load.file.path] \notin DOMAIN Base64Texts)
                => last_load.file = FileErr("Decode")
          /\ (/\ last_load.file.path \in DOMAIN LoadedManifest
              /\ LoadedManifest[last_load.file.path] \in DOMAIN Base64Texts)
                => /\ last_load.file.ok
                   /\ last_load.file.bytes =
                         Source(Base64Texts[LoadedManifest[last_load.file.path]])
          /\ (~last_load.file.ok /\ last_load.held.some)
                => client.component_manifest = last_load.held
          /\ (~last_load.file.ok /\ ~last_load.held.some)
                => LoadedManifest = ManifestOf(last_load.result.bytes)

\* A lookup of a key whose value is not base64, in a manifest held in memory.
C15_Witness ==
    /\ last_load.called /\ last_load.call = "fetch_component_file"
    /\ last_load.held.some
    /\ last_load.file.path \in DOMAIN last_load.held.map
    /\ last_load.file.variant = "Decode"
    /\ client.component_manifest = last_load.held

(***************************************************************************)
(* The workspace on disk                                                   *)
(***************************************************************************)
\* files: the regular files and their text, keyed by location;
\* dirs: the directories that exist.
Exists(fs, path) == FsResolve(path) \in DOMAIN fs.files

FsRead(fs, path) == fs.files[FsResolve(path)]

\* Option<Vec<u8>> of a destination.
NoBytes == [some |-> FALSE, bytes |-> <<>>]

SomeBytes(bytes) == [some |-> TRUE, bytes |-> bytes]

ReadOptional(fs, path) ==
    IF Exists(fs, path) THEN SomeBytes(FsRead(fs, path)) ELSE NoBytes

\* Path::parent
Parent(path) == Front(path)

\* fs::create_dir_all: the directory and every missing ancestor.
create_dir_all(fs, dir) ==
    LET target == FsResolve(dir)
    IN [fs EXCEPT !.dirs = @ \cup {SubSeq(target, 1, k) : k \in 1..Len(target)}]

\* fs::write: creates the file or replaces its whole content.
WriteFile(fs, path, bytes) ==
    LET key == FsResolve(path)
    IN [fs EXCEPT !.files =
            [p \in DOMAIN @ \cup {key} |-> IF p = key THEN bytes ELSE @[p]]]

\* write_component_file with dry_run set: the status only.
WouldWrite(fs, path, contents) ==
    [fs |-> fs,
     status |-> IF Exists(fs, path)
                THEN (IF FsRead(fs, path) = contents THEN "Unchanged" ELSE "Updated")
                ELSE "Created"]

\* write_component_file without dry_run, once the parent directory is made.
WriteIfChanged(made, path, contents) ==
    IF Exists(made, path) /\ FsRead(made, path) = contents
    THEN [fs |-> made, status |-> "Unchanged"]
    ELSE [fs |-> WriteFile(made, path, contents),
          status |-> IF Exists(made, path) THEN "Updated" ELSE "Created"]

\* A writer that skips the dry-run test (mutant).
write_component_file_ignoring_dry_run(fs, path, contents, dry_run) ==
    WriteIfChanged(create_dir_all(fs, Parent(path)), path, contents)

write_component_file(fs, path, contents, dry_run) ==
    IF dry_run THEN WouldWrite(fs, path, contents)
    ELSE WriteIfChanged(create_dir_all(fs, Parent(path)), path, contents)

(***************************************************************************)
(* cli/src/deps.rs and PackageSnapshot: dependency requirements            *)
(***************************************************************************)
\* semver::VersionReq::parse, for the specifiers that occur.
VersionReq(spec) ==
    CASE spec = "^3.0.0" -> [ok |-> TRUE, major |-> 3, minor |-> 0, patch |-> 0]
      [] spec = "^3.12.0" -> [ok |-> TRUE, major |-> 3, minor |-> 12, patch |-> 0]
      [] spec = "^3.12.5" -> [ok |-> TRUE, major |-> 3, minor |-> 12, patch |-> 5]
      [] OTHER -> [ok |-> FALSE, major |-> 0, minor |-> 0, patch |-> 0]

\* minimal_version: the version named by the first caret comparator.
minimal_version(spec) == VersionReq(spec)

\* VersionReq::matches for a caret requirement with a non-zero major.
Matches(req, version) ==
    /\ version.major = req.major
    /\ \/ version.minor > req.minor
       \/ version.minor = req.minor /\ version.patch >= req.patch

NoSpec == [some |-> FALSE, spec |-> ""]

SomeSpec(spec) == [some |-> TRUE, spec |-> spec]

\* str::trim, for the specifiers that occur with whitespace around them.
trim(spec) ==
    CASE spec = " " -> ""
      [] spec = " ^3.0.0 " -> "^3.0.0"
      [] OTHER -> spec

\* After the trimming and the test for an absent or empty side.
SatisfiesTrimmed(installed, required) ==
    IF installed = required THEN TRUE
    ELSE IF ~VersionReq(installed).ok THEN FALSE
    ELSE IF minimal_version(required).ok
         THEN Matches(VersionReq(installed), minimal_version(required))
         ELSE FALSE

\* A comparison that tests equality before anything else (mutant).
spec_satisfies_equality_first(installed, required) ==
    IF installed.some /\ installed.spec = required THEN TRUE
    ELSE IF ~installed.some THEN FALSE
    ELSE IF trim(installed.spec) = "" \/ trim(required) = "" THEN FALSE
    ELSE SatisfiesTrimmed(trim(installed.spec), trim(required))

spec_satisfies(installed, required) ==
    IF ~installed.some THEN FALSE
    ELSE IF trim(installed.spec) = "" \/ trim(required) = "" THEN FALSE
    ELSE SatisfiesTrimmed(trim(installed.spec), trim(required))

\* package.json as the workspace holds it.
PackageJson(state, dependencies, dev_dependencies) ==
    [state |-> state, dependencies |-> dependencies, dev_dependencies |-> dev_dependencies]

EmptySnapshot == [dependencies |-> NoDeps, dev_dependencies |-> NoDeps]

\* PackageSnapshot::load
PackageSnapshotLoad(pkg) ==
    IF pkg.state = "ok"
    THEN [ok |-> TRUE,
          snapshot |-> [dependencies |-> pkg.dependencies,
                        dev_dependencies |-> pkg.dev_dependencies]]
    ELSE [ok |-> FALSE, snapshot |-> EmptySnapshot]

\* PackageSnapshot::spec
SnapshotSpec(snapshot, name) ==
    IF name \in DOMAIN snapshot.dependencies THEN SomeSpec(snapshot.dependencies[name])
    ELSE IF name \in DOMAIN snapshot.dev_dependencies
    THEN SomeSpec(snapshot.dev_dependencies[name])
    ELSE NoSpec

\* BTreeMap::extend: a later value replaces an earlier one.
Extend(map, more) ==
    [k \in DOMAIN map \cup DOMAIN more |-> IF k \in DOMAIN more THEN more[k] ELSE map[k]]

\* The packages to install, as the set of required names left unsatisfied.
diff_dependencies(requirements, snapshot) ==
    {name \in DOMAIN requirements :
        ~spec_satisfies(SnapshotSpec(snapshot, name), requirements[name])}

(***************************************************************************)
(* core/src/components.rs, cli/src/commands/add.rs: the export barrel      *)
(***************************************************************************)
RECURSIVE SortedNames(_)
SortedNames(set) ==
    IF set = {} THEN <<>>
    ELSE LET least == CHOOSE n \in set : \A m \in set : ExportNameRank(n) <= ExportNameRank(m)
         IN <<least>> \o SortedNames(set \ {least})

\* trim_start_matches('"'): every leading double quote goes.
RECURSIVE trim_start_quotes(_)
trim_start_quotes(remainder) ==
    IF remainder # <<>> /\ Head(remainder) = "\"" THEN trim_start_quotes(Tail(remainder))
    ELSE remainder

\* trim_end_matches("\";"): every trailing `";` goes.
RECURSIVE trim_end_closers(_)
trim_end_closers(remainder) ==
    IF remainder # <<>> /\ remainder[Len(remainder)] = "\";"
    THEN trim_end_closers(Front(remainder))
    ELSE remainder

\* `remainder.trim().trim_start_matches('"').trim_end_matches("\";")`
Cleaned(remainder) == trim_end_closers(trim_start_quotes(remainder))

\* `for name in names.split(',')`: one entry per name of a type re-export.
RECURSIVE SplitNames(_)
SplitNames(contents) ==
    IF contents = <<>> THEN <<>>
    ELSE IF Head(contents).kind = "types"
    THEN [i \in 1..Len(Head(contents).name) |->
             [kind |-> "type", name |-> Head(contents).name[i], from |-> Head(contents).from]]
         \o SplitNames(Tail(contents))
    ELSE <<Head(contents)>> \o SplitNames(Tail(contents))

\* The import path stored for name by the last line of that kind that names it.
LastImport(contents, kind, name) ==
    LET at == {i \in 1..Len(contents) : contents[i].kind = kind /\ contents[i].name = name}
        last == CHOOSE i \in at : \A j \in at : j <= i
    IN Cleaned(contents[last].from)

ExportsOfKind(contents, kind) ==
    [name \in {contents[i].name : i \in {j \in 1..Len(contents) : contents[j].kind = kind}} |->
        LastImport(contents, kind, name)]

\* parse_export_map: re-export lines keyed by exported name; other lines are dropped.
parse_export_map(contents) ==
    [components |-> ExportsOfKind(contents, "component"),
     types |-> ExportsOfKind(SplitNames(contents), "type")]

RenderSorted(export_map, cs, ts) ==
    [i \in 1..Len(cs) |-> ComponentLine(cs[i], export_map.components[cs[i]])]
        \o [i \in 1..Len(ts) |-> TypeLine(ts[i], export_map.types[ts[i]])]

\* BarrelExports::render: component lines by name, then type lines by name.
render(export_map) ==
    RenderSorted(export_map, SortedNames(DOMAIN export_map.components),
                 SortedNames(DOMAIN export_map.types))

CommonPrefixLen(a, b) ==
    CHOOSE k \in 0..Len(a) :
        /\ k <= Len(b)
        /\ \A i \in 1..k : a[i] = b[i]
        /\ (k < Len(a) /\ k < Len(b)) => a[k + 1] # b[k + 1]

\* pathdiff::diff_paths for two absolute paths without "." or "..".
diff_paths(path, base) ==
    LET k == CommonPrefixLen(path, base)
    IN [i \in 1..(Len(base) - k) |-> ".."] \o SubSeq(path, k + 1, Len(path))

\* The import path as the list of its '/'-separated parts.
compute_import_path(components_root, barrel_dir, entry_path) ==
    IF StartsWith(entry_path, components_root)
    THEN <<".">> \o SubSeq(entry_path, Len(components_root) + 1, Len(entry_path))
    ELSE LET relative == diff_paths(entry_path, barrel_dir)
         IN IF relative # <<>> /\ relative[1] = ".." THEN relative ELSE <<".">> \o relative

\* BTreeMap::entry: insert when vacant, replace when the stored line differs.
InsertExport(acc, name, import) ==
    IF name \in DOMAIN acc.map /\ acc.map[name] = import THEN acc
    ELSE [map |-> Extend(acc.map, [k \in {name} |-> import]), modified |-> TRUE]

\* An insert that never replaces a line already present (mutant).
InsertExportIfVacant(acc, name, import) ==
    IF name \in DOMAIN acc.map THEN acc
    ELSE [map |-> Extend(acc.map, [k \in {name} |-> import]), modified |-> TRUE]

\* `for component in components`: pairs is a sequence of <<name, entry_path>>.
RECURSIVE InsertAll(_, _, _, _)
InsertAll(acc, pairs, components_root, barrel_dir) ==
    IF pairs = <<>> THEN acc
    ELSE InsertAll(InsertExport(acc, Head(pairs)[1],
                                compute_import_path(components_root, barrel_dir, Head(pairs)[2])),
                   Tail(pairs), components_root, barrel_dir)

ComponentPairs(installed) ==
    [i \in 1..Len(installed) |-> <<installed[i].export_name, installed[i].entry_path>>]

\* `for type_entry in type_exports { for name in export_names (non-empty) }`
RECURSIVE TypePairs(_)
TypePairs(type_exports) ==
    IF type_exports = <<>> THEN <<>>
    ELSE LET entry == Head(type_exports)
             names == SelectSeq(entry.export_names, LAMBDA n : n # "")
         IN [i \in 1..Len(names) |-> <<names[i], entry.entry_path>>]
            \o TypePairs(Tail(type_exports))

NoText == [some |-> FALSE, text |-> <<>>]

SomeText(text) == [some |-> TRUE, text |-> text]

\* `if modified && !export_map.is_empty()`
Rendered(components_map, ts) ==
    IF ts.modified /\ ~(DOMAIN components_map = {} /\ DOMAIN ts.map = {})
    THEN SomeText(render([components |-> components_map, types |-> ts.map]))
    ELSE NoText

\* The second loop, over the type exports.
RenderTypes(cs, types, type_pairs, components_root, barrel_dir) ==
    Rendered(cs.map, InsertAll([map |-> types, modified |-> cs.modified], type_pairs,
                               components_root, barrel_dir))

\* The first loop, over the component exports.
RenderParsed(parsed, component_pairs, type_pairs, components_root, barrel_dir) ==
    RenderTypes(InsertAll([map |-> parsed.components, modified |-> FALSE], component_pairs,
                          components_root, barrel_dir),
                parsed.types, type_pairs, components_root, barrel_dir)

\* The body shared by render_component_barrel and update_component_exports.
RenderExports(components_root, barrel_dir, installed, type_exports, existing) ==
    IF installed = <<>> /\ type_exports = <<>> THEN NoText
    ELSE RenderParsed(parse_export_map(existing), ComponentPairs(installed),
                      TypePairs(type_exports), components_root, barrel_dir)

render_component_barrel(workspace_root, config, installed, type_exports, existing) ==
    RenderExports(workspace_path(workspace_root, config.aliases.components),
                  Parent(workspace_path(workspace_root, config.barrel)),
                  installed, type_exports, existing)

ReadText(fs, path) == IF Exists(fs, path) THEN FsRead(fs, path) ELSE <<>>

\* `if modified { if !dry_run { fs::write } Ok(true) } else { Ok(false) }`
ExportsWritten(made, barrel_path, rendered, dry_run) ==
    [fs |-> IF rendered.some /\ ~dry_run THEN WriteFile(made, barrel_path, rendered.text)
            ELSE made,
     updated |-> rendered.some]

UpdateExportsAt(made, components_root, barrel_path, installed, type_exports, dry_run) ==
    ExportsWritten(made, barrel_path,
                   RenderExports(components_root, Parent(barrel_path), installed,
                                 type_exports, ReadText(made, barrel_path)),
                   dry_run)

\* The CLI reads the barrel when it updates it; returns the new disk state and
\* whether the exports were updated.
update_component_exports(fs, workspace_root, config, installed, type_exports, dry_run) ==
    IF installed = <<>> /\ type_exports = <<>> THEN [fs |-> fs, updated |-> FALSE]
    ELSE UpdateExportsAt(
             IF ~dry_run
             THEN create_dir_all(fs, Parent(Join(workspace_root, Components(config.barrel))))
             ELSE fs,
             Join(workspace_root, Components(config.aliases.components)),
             Join(workspace_root, Components(config.barrel)),
             installed, type_exports, dry_run)

(***************************************************************************)
(* core/src/operations/add.rs, cli/src/commands/add.rs: planning           *)
(***************************************************************************)
WorkspaceRoot == <<ROOT, "workspace">>

NoConfig == [some |-> FALSE, value |-> DefaultConfig]

SomeConfig(config) == [some |-> TRUE, value |-> config]

\* The core sanitizes the registry path, the CLI's copy does not.
Destination(front, workspace_root, config, file) ==
    IF front = "core" THEN resolve_component_destination(workspace_root, config, file)
    ELSE resolve_destination(workspace_root, config, file)

\* PlannedFile, with the status plan() derives from the destination's bytes.
PlannedFile(record, file, contents, destination, existing_contents) ==
    [component_name |-> record.name,
     registry_path |-> file.path,
     destination |-> destination,
     contents |-> contents,
     existing_contents |-> existing_contents,
     status |-> IF ~existing_contents.some THEN "Create"
                ELSE IF existing_contents.bytes = contents THEN "Unchanged"
                ELSE "Update",
     apply |-> TRUE]

PlanFileAt(fs, record, file, contents, destination) ==
    PlannedFile(record, file, contents, destination, ReadOptional(fs, destination))

\* The body of `for file in &record.files`, up to planned_files.push.
PlanFile(front, workspace_root, config, reg, fs, record, file) ==
    PlanFileAt(fs, record, file, fetch_component_file(reg, file.path).bytes,
               Destination(front, workspace_root, config, file))

\* Each file record with the destination planned for it.
FilePairs(files, planned_files) ==
    [i \in 1..Len(files) |-> [file |-> files[i], destination |-> planned_files[i].destination]]

\* The declared entry files, or else the first .svelte file.
EntryFiles(declared, svelte) ==
    IF declared # <<>> THEN declared
    ELSE IF svelte # <<>> THEN <<Head(svelte)>>
    ELSE <<>>

\* What one iteration of `for slug in install_order.iter()` adds to the plan.
ComponentPlan(slug, record, planned_files, entries, typed) ==
    [planned_files |-> planned_files,
     installed_components |->
         [i \in 1..Len(entries) |->
             [export_name |-> entry_export_name(slug, entries[i].destination, i - 1),
              entry_path |-> entries[i].destination]],
     registered_type_exports |->
         [i \in 1..Len(typed) |->
             [export_names |-> typed[i].file.type_exports,
              entry_path |-> typed[i].destination]],
     runtime_requirements |-> record.dependencies,
     dev_requirements |-> record.dev_dependencies,
     missing_entry_components |-> IF entries = <<>> THEN <<record.name>> ELSE <<>>]

PlanPairs(slug, record, planned_files, pairs) ==
    ComponentPlan(slug, record, planned_files,
                  EntryFiles(SelectSeq(pairs, LAMBDA p : is_entry_file(p.file)),
                             SelectSeq(pairs, LAMBDA p : is_svelte_file(p.file))),
                  SelectSeq(pairs, LAMBDA p : p.file.type_exports # <<>>))

PlanPlanned(slug, record, planned_files) ==
    PlanPairs(slug, record, planned_files, FilePairs(record.files, planned_files))

PlanRecord(front, workspace_root, config, reg, fs, slug, record) ==
    PlanPlanned(slug, record,
                [i \in 1..Len(record.files) |->
                    PlanFile(front, workspace_root, config, reg, fs, record, record.files[i])])

\* One iteration of `for slug in install_order.iter()`.
PlanComponent(front, workspace_root, config, reg, fs, slug) ==
    PlanRecord(front, workspace_root, config, reg, fs, slug, reg.components[slug])

NoParts ==
    [planned_files |-> <<>>, installed_components |-> <<>>,
     registered_type_exports |-> <<>>, runtime_requirements |-> NoDeps,
     dev_requirements |-> NoDeps, missing_entry_components |-> <<>>]

\* The pushes and extends of one iteration, followed by those of the later ones.
Combine(one, rest) ==
    [planned_files |-> one.planned_files \o rest.planned_files,
     installed_components |-> one.installed_components \o rest.installed_components,
     registered_type_exports |-> one.registered_type_exports \o rest.registered_type_exports,
     runtime_requirements |-> Extend(one.runtime_requirements, rest.runtime_requirements),
     dev_requirements |-> Extend(one.dev_requirements, rest.dev_requirements),
     missing_entry_components |->
         one.missing_entry_components \o rest.missing_entry_components]

\* The whole loop over the install order.
RECURSIVE PlanComponents(_, _, _, _, _, _)
PlanComponents(front, workspace_root, config, reg, fs, install_order) ==
    IF install_order = <<>> THEN NoParts
    ELSE Combine(PlanComponent(front, workspace_root, config, reg, fs, Head(install_order)),
                 PlanComponents(front, workspace_root, config, reg, fs, Tail(install_order)))

\* `fetch_component_file(&file.path)?` succeeds for every file of the order.
AllFetched(reg, install_order) ==
    \A i \in 1..Len(install_order) :
        \A j \in 1..Len(reg.components[install_order[i]].files) :
            fetch_component_file(reg, reg.components[install_order[i]].files[j].path).ok

\* AddPlan (the fields apply reads).
AddPlan(install_order, parts, existing_barrel, package_snapshot) ==
    [install_order |-> install_order,
     planned_files |-> parts.planned_files,
     installed_components |-> parts.installed_components,
     registered_type_exports |-> parts.registered_type_exports,
     runtime_requirements |-> parts.runtime_requirements,
     dev_requirements |-> parts.dev_requirements,
     existing_barrel |-> existing_barrel,
     package_snapshot |-> package_snapshot,
     missing_entry_components |-> parts.missing_entry_components]

NoPlan ==
    [install_order |-> <<>>, planned_files |-> <<>>, installed_components |-> <<>>,
     registered_type_exports |-> <<>>, runtime_requirements |-> NoDeps,
     dev_requirements |-> NoDeps, existing_barrel |-> <<>>,
     package_snapshot |-> EmptySnapshot, missing_entry_components |-> <<>>]

\* Result<AddPlan, AddError>; for the CLI, "noop" is its early return of NoOp.
PlanErr(variant, message) ==
    [status |-> "err", variant |-> variant, message |-> message, plan |-> NoPlan]

PlanNoOp(message) ==
    [status |-> "noop", variant |-> "", message |-> message, plan |-> NoPlan]

PlanOk(add_plan) == [status |-> "ok", variant |-> "", message |-> "", plan |-> add_plan]

\* plan(), once the install order is resolved and package.json is loaded.
PlanLoaded(ctx, install_order, package_snapshot) ==
    IF ~AllFetched(ctx.registry, install_order) THEN PlanErr("Registry", "asset not found")
    ELSE PlanOk(AddPlan(install_order,
                        PlanComponents("core", ctx.workspace_root, ctx.config.value,
                                       ctx.registry, ctx.fs, install_order),
                        ReadText(ctx.fs, workspace_path(ctx.workspace_root,
                                                        ctx.config.value.barrel)),
                        package_snapshot))

\* plan(), from resolve_install_order on.
PlanResolved(ctx, resolved_order, loaded) ==
    IF resolved_order.status = "err" THEN PlanErr("Other", "component not found in registry")
    ELSE IF ~loaded.ok THEN PlanErr("Other", "failed to read package.json")
    ELSE PlanLoaded(ctx, resolved_order.order, loaded.snapshot)

\* core plan(ctx, options)
plan(ctx, options) ==
    IF ~ctx.config.some THEN PlanErr("MissingConfig", "no motion-core.json found")
    ELSE PlanResolved(ctx,
                      resolve_install_order(options.components, ctx.registry.components),
                      PackageSnapshotLoad(ctx.package_json))

\* run(), its planning loop.
RunLoaded(ctx, install_order, package_snapshot) ==
    IF ~AllFetched(ctx.registry, install_order) THEN PlanErr("Registry", "asset not found")
    ELSE PlanOk(AddPlan(install_order,
                        PlanComponents("cli", ctx.workspace_root, ctx.config.value,
                                       ctx.registry, ctx.fs, install_order),
                        <<>>, package_snapshot))

\* A run() that returns the resolution failure with `?` (mutant).
RunResolved_propagating(ctx, options, proceed, resolved_order) ==
    IF resolved_order.status = "err" THEN PlanErr("Other", "component not found in registry")
    ELSE IF resolved_order.order = <<>> THEN PlanNoOp("no components to install")
    ELSE IF ~options.dry_run /\ options.mode = "Prompt" /\ ~proceed
    THEN PlanNoOp("installation cancelled")
    ELSE RunLoaded(ctx, resolved_order.order, PackageSnapshotLoad(ctx.package_json).snapshot)

\* run(), from resolve_install_order on.
RunResolved(ctx, options, proceed, resolved_order) ==
    IF resolved_order.status = "err" THEN PlanNoOp("component not found in registry")
    ELSE IF resolved_order.order = <<>> THEN PlanNoOp("no components to install")
    ELSE IF ~options.dry_run /\ options.mode = "Prompt" /\ ~proceed
    THEN PlanNoOp("installation cancelled")
    ELSE RunLoaded(ctx, resolved_order.order, PackageSnapshotLoad(ctx.package_json).snapshot)

\* cli run(ctx, reporter, args), from its start to the end of the planning
\* loop; proceed is the answer to "Apply this plan?".
run_plan(ctx, options, proceed) ==
    IF ~ctx.config.some THEN PlanNoOp("no motion-core.json found")
    ELSE RunResolved(ctx, options, proceed,
                     resolve_install_order(options.components, ctx.registry.components))

(***************************************************************************)
(* core/src/operations/add.rs, cli/src/commands/add.rs: applying           *)
(***************************************************************************)
FileReport(file, status) ==
    [destination |-> file.destination, component_name |-> file.component_name,
     status |-> status]

\* `if !file.apply { Skipped } else { write_component_file(..)? }`
ApplyFile(fs, file, dry_run) ==
    IF ~file.apply THEN [fs |-> fs, status |-> "Skipped"]
    ELSE write_component_file(fs, file.destination, file.contents, dry_run)

Reported(file, status, rest) ==
    [fs |-> rest.fs, files |-> <<FileReport(file, status)>> \o rest.files]

\* `for file in plan.planned_files.iter()`: the disk after the loop and the
\* report of every file, in order.
RECURSIVE ApplyFiles(_, _, _)
ApplyRest(file, written, later, dry_run) ==
    Reported(file, written.status, ApplyFiles(written.fs, later, dry_run))

ApplyFiles(fs, planned_files, dry_run) ==
    IF planned_files = <<>> THEN [fs |-> fs, files |-> <<>>]
    ELSE ApplyRest(Head(planned_files), ApplyFile(fs, Head(planned_files), dry_run),
                   Tail(planned_files), dry_run)

\* DependencyAction
DependencyAction(action, packages) == [action |-> action, packages |-> packages]

NoAction == DependencyAction("none", {})

\* What a successful `install` leaves in package.json for a required
\* specifier: the specifier itself or the range of the version it resolved to.
Recorded(required, how) ==
    IF how = "resolved" /\ required = "^3.12.0" THEN "^3.12.5" ELSE required

AddedTo(base, added, dev) ==
    IF dev THEN [base EXCEPT !.dev_dependencies = Extend(@, added)]
    ELSE [base EXCEPT !.dependencies = Extend(@, added)]

\* InstallPlan::run: the package manager is a separate program; pm.ok says
\* whether it exits with success, pm.records how it writes package.json.
InstallPlanRun(pkg, requirements, packages, dev, pm) ==
    IF ~pm.ok THEN pkg
    ELSE AddedTo(IF pkg.state = "ok" THEN pkg ELSE PackageJson("ok", NoDeps, NoDeps),
                 [name \in packages |-> Recorded(requirements[name], pm.records)],
                 dev)

Handled(ok, action, pkg, calls) ==
    [ok |-> ok, action |-> action, pkg |-> pkg, calls |-> calls]

\* A handler that looks at dry_run before the package manager (mutant).
HandleInstalls_dry_run_first(requirements, installs, package_manager, dry_run, dev, pkg, pm) ==
    IF installs = {} THEN Handled(TRUE, DependencyAction("AlreadyInstalled", {}), pkg, <<>>)
    ELSE IF dry_run THEN Handled(TRUE, DependencyAction("DryRun", installs), pkg, <<>>)
    ELSE IF package_manager = "Unknown"
    THEN Handled(TRUE, DependencyAction("Manual", installs), pkg, <<>>)
    ELSE Handled(pm.ok,
                 IF pm.ok THEN DependencyAction("Installed", installs) ELSE NoAction,
                 InstallPlanRun(pkg, requirements, installs, dev, pm),
                 <<[dev |-> dev, packages |-> installs]>>)

HandleInstalls(requirements, installs, package_manager, dry_run, dev, pkg, pm) ==
    IF installs = {} THEN Handled(TRUE, DependencyAction("AlreadyInstalled", {}), pkg, <<>>)
    ELSE IF package_manager = "Unknown"
    THEN Handled(TRUE, DependencyAction("Manual", installs), pkg, <<>>)
    ELSE IF dry_run THEN Handled(TRUE, DependencyAction("DryRun", installs), pkg, <<>>)
    ELSE Handled(pm.ok,
                 IF pm.ok THEN DependencyAction("Installed", installs) ELSE NoAction,
                 InstallPlanRun(pkg, requirements, installs, dev, pm),
                 <<[dev |-> dev, packages |-> installs]>>)

\* handle_dependencies (core) and the install blocks of run (CLI): the action
\* taken, the package.json left behind and the package-manager invocations.
handle_dependencies(requirements, snapshot, package_manager, dry_run, dev, pkg, pm) ==
    HandleInstalls(requirements, diff_dependencies(requirements, snapshot),
                   package_manager, dry_run, dev, pkg, pm)

\* ApplyOutcome / the CLI's CommandOutcome, and the world the call leaves.
Applied(status, files, exports_updated, runtime, dev, outcome, fs, pkg, calls) ==
    [status |-> status, files |-> files, exports_updated |-> exports_updated,
     runtime |-> runtime, dev |-> dev, outcome |-> outcome,
     fs |-> fs, pkg |-> pkg, calls |-> calls]

Failed(fs, pkg, calls) == Applied("err", <<>>, FALSE, NoAction, NoAction, "", fs, pkg, calls)

\* An outcome that counts files and exports only (mutant).
Outcome_without_installs(front, changed, runtime, dev) ==
    IF front = "core" THEN "" ELSE IF changed THEN "Completed" ELSE "NoOp"

\* The CLI's outcome; the core returns no such value.
Outcome(front, changed, runtime, dev) ==
    IF front = "core" THEN ""
    ELSE IF changed \/ runtime.action.action = "Installed" \/ dev.action.action = "Installed"
    THEN "Completed"
    ELSE "NoOp"

\* After the dev install.
ApplyDev(front, files, exports_updated, changed, fs, runtime, dev) ==
    IF ~dev.ok THEN Failed(fs, dev.pkg, runtime.calls \o dev.calls)
    ELSE Applied("ok", files, exports_updated, runtime.action, dev.action,
                 Outcome(front, changed, runtime, dev), fs, dev.pkg,
                 runtime.calls \o dev.calls)

\* An apply that goes on to the dev scope after a failed runtime install
\* (mutant).
ApplyRuntimeContinuing(front, ctx, add_plan, options, pm_dev, files, exports_updated, changed, fs, runtime) ==
    ApplyDev(front, files, exports_updated, changed, fs, runtime,
             handle_dependencies(add_plan.dev_requirements, add_plan.package_snapshot,
                                 ctx.package_manager, options.dry_run, front = "cli",
                                 runtime.pkg, pm_dev))

\* After the runtime install: an error returns at once. Only the CLI sets
\* `plan.dev = true` for the dev scope; the core's InstallPlan is the same
\* for both scopes.
ApplyRuntime(front, ctx, add_plan, options, pm_dev, files, exports_updated, changed, fs, runtime) ==
    IF ~runtime.ok THEN Failed(fs, runtime.pkg, runtime.calls)
    ELSE ApplyDev(front, files, exports_updated, changed, fs, runtime,
                  handle_dependencies(add_plan.dev_requirements, add_plan.package_snapshot,
                                      ctx.package_manager, options.dry_run, front = "cli",
                                      runtime.pkg, pm_dev))

\* After the file loop and the exports: the two dependency scopes.
ApplyDependencies(front, ctx, add_plan, options, pm_runtime, pm_dev, files, exports_updated, changed, fs) ==
    ApplyRuntime(front, ctx, add_plan, options, pm_dev, files, exports_updated, changed, fs,
                 handle_dependencies(add_plan.runtime_requirements, add_plan.package_snapshot,
                                     ctx.package_manager, options.dry_run, FALSE,
                                     ctx.package_json, pm_runtime))

\* `if let Some(rendered) = .. { if !dry_run { create_dir_all; fs::write } }`
BarrelWritten(fs, barrel_path, rendered, dry_run) ==
    IF rendered.some /\ ~dry_run
    THEN WriteFile(create_dir_all(fs, Parent(barrel_path)), barrel_path, rendered.text)
    ELSE fs

ApplyExports(ctx, add_plan, options, pm_runtime, pm_dev, written, rendered) ==
    ApplyDependencies("core", ctx, add_plan, options, pm_runtime, pm_dev, written.files,
                      rendered.some, FALSE,
                      BarrelWritten(written.fs,
                                    workspace_path(ctx.workspace_root, ctx.config.value.barrel),
                                    rendered, options.dry_run))

\* An apply that renders from the barrel as it is on disk when apply runs,
\* not from the one the plan read (mutant).
apply_rereading(ctx, add_plan, options, pm_runtime, pm_dev) ==
    ApplyExports(ctx, add_plan, options, pm_runtime, pm_dev,
                 ApplyFiles(ctx.fs, add_plan.planned_files, options.dry_run),
                 render_component_barrel(ctx.workspace_root, ctx.config.value,
                                         add_plan.installed_components,
                                         add_plan.registered_type_exports,
                                         ReadText(ctx.fs,
                                                  workspace_path(ctx.workspace_root,
                                                                 ctx.config.value.barrel))))

\* core apply(ctx, plan, options): ctx holds the disk and the package.json it
\* runs against, pm_runtime and pm_dev the package manager's behaviour.
apply(ctx, add_plan, options, pm_runtime, pm_dev) ==
    ApplyExports(ctx, add_plan, options, pm_runtime, pm_dev,
                 ApplyFiles(ctx.fs, add_plan.planned_files, options.dry_run),
                 render_component_barrel(ctx.workspace_root, ctx.config.value,
                                         add_plan.installed_components,
                                         add_plan.registered_type_exports,
                                         add_plan.existing_barrel))

\* `files_changed > 0`
FilesChanged(files) ==
    \E i \in 1..Len(files) : files[i].status \in {"Created", "Updated"}

RunExported(ctx, add_plan, options, pm_runtime, pm_dev, files, exported) ==
    ApplyDependencies("cli", ctx, add_plan, options, pm_runtime, pm_dev, files,
                      exported.updated,
                      ~options.dry_run /\ (FilesChanged(files) \/ exported.updated),
                      exported.fs)

RunWritten(ctx, add_plan, options, pm_runtime, pm_dev, written) ==
    RunExported(ctx, add_plan, options, pm_runtime, pm_dev, written.files,
                update_component_exports(written.fs, ctx.workspace_root, ctx.config.value,
                                         add_plan.installed_components,
                                         add_plan.registered_type_exports, options.dry_run))

\* cli run, from the file loop to its return.
run_apply(ctx, add_plan, options, pm_runtime, pm_dev) ==
    RunWritten(ctx, add_plan, options, pm_runtime, pm_dev,
               ApplyFiles(ctx.fs, add_plan.planned_files, options.dry_run))

\* resolve_file_conflicts: declined is the set of conflicting files for which
\* the user answers "no" when asked; the result holds the files and the
\* questions asked with their answers.
Conflicts(planned_files) ==
    {i \in 1..Len(planned_files) : planned_files[i].status = "Update"}

Indices(set, n) == SelectSeq([i \in 1..n |-> i], LAMBDA i : i \in set)

\* `Confirm::new().with_prompt(..).interact()` for each conflicting file, in
\* order: the file asked about and the answer given.
Answers(conflicting, declined) ==
    [k \in 1..Len(conflicting) |->
        [file |-> conflicting[k], overwrite |-> conflicting[k] \notin declined]]

\* A resolver that also asks in non-interactive mode (mutant).
resolve_file_conflicts_always_asking(planned_files, dry_run, prompt_mode, declined) ==
    LET asking == ~dry_run /\ prompt_mode \in {"Prompt", "NonInteractive"}
    IN [planned_files |->
            [i \in 1..Len(planned_files) |->
                IF asking /\ i \in Conflicts(planned_files) /\ i \in declined
                THEN [planned_files[i] EXCEPT !.apply = FALSE]
                ELSE planned_files[i]],
        asked |-> IF asking THEN Answers(Indices(Conflicts(planned_files),
                                                 Len(planned_files)), declined)
                  ELSE <<>>]

\* A resolver for which one "no" skips every conflicting file (mutant).
resolve_file_conflicts_all_or_nothing(planned_files, dry_run, prompt_mode, declined) ==
    LET asking == ~dry_run /\ prompt_mode = "Prompt"
    IN [planned_files |->
            [i \in 1..Len(planned_files) |->
                IF asking /\ i \in Conflicts(planned_files) /\ declined # {}
                THEN [planned_files[i] EXCEPT !.apply = FALSE]
                ELSE planned_files[i]],
        asked |-> IF asking THEN Answers(Indices(Conflicts(planned_files),
                                                 Len(planned_files)), declined)
                  ELSE <<>>]

\* A resolver that skips every file the user would decline, whatever its
\* status (mutant).
resolve_file_conflicts_any_status(planned_files, dry_run, prompt_mode, declined) ==
    LET asking == ~dry_run /\ prompt_mode = "Prompt"
    IN [planned_files |->
            [i \in 1..Len(planned_files) |->
                IF asking /\ i \in declined
                THEN [planned_files[i] EXCEPT !.apply = FALSE]
                ELSE planned_files[i]],
        asked |-> IF asking THEN Answers(Indices(Conflicts(planned_files),
                                                 Len(planned_files)), declined)
                  ELSE <<>>]

resolve_file_conflicts(planned_files, dry_run, prompt_mode, declined) ==
    LET asking == ~dry_run /\ prompt_mode = "Prompt"
    IN [planned_files |->
            [i \in 1..Len(planned_files) |->
                IF asking /\ i \in Conflicts(planned_files) /\ i \in declined
                THEN [planned_files[i] EXCEPT !.apply = FALSE]
                ELSE planned_files[i]],
        asked |-> IF asking THEN Answers(Indices(Conflicts(planned_files),
                                                 Len(planned_files)), declined)
                  ELSE <<>>]

(***************************************************************************)
(* The add command, invocation after invocation                            *)
(***************************************************************************)
MaxRuns == 2

MaxEdits == 1

Requests ==
    {<<"cn">>, <<"grid">>, <<"halo">>, <<"ghost">>, <<"dup">>, <<"twin">>, <<"grid", "ghost">>}

ConfirmationModes == {"Prompt", "AssumeYes", "NonInteractive"}

LibDir == WorkspaceRoot \o default_component_filesystem

BarrelFile == WorkspaceRoot \o default_components_barrel

DirsOf(files) ==
    UNION {{SubSeq(p, 1, k) : k \in 1..(Len(p) - 1)} : p \in DOMAIN files}
        \cup {<<ROOT>>, WorkspaceRoot}

DiskWith(files) == [files |-> files, dirs |-> DirsOf(files)]

EmptyDisk == DiskWith([p \in {} |-> <<>>])

\* An earlier install whose types.ts is as the registry has it and whose
\* other files were edited by hand, with a barrel that has a comment, a
\* hand-written export and an outdated one.
EditedDisk ==
    DiskWith(
        [p \in {LibDir \o <<"grid", "Grid.svelte">>,
                LibDir \o <<"grid", "types.ts">>,
                LibDir \o <<"utils", "cn.ts">>,
                LibDir \o <<"dup", "Dup.svelte">>,
                LibDir \o <<"twin", "twin.svelte">>,
                LibDir \o <<"halo", "Halo.svelte">>,
                BarrelFile} |->
            CASE p = LibDir \o <<"grid", "types.ts">> -> Source("types.ts")
              [] p = BarrelFile ->
                     <<TextLine("// components"),
                       ComponentLine("Legacy", <<".", "legacy", "Legacy.svelte">>),
                       ComponentLine("Grid", <<".", "old", "Grid.svelte">>),
                       TypeLine("LegacyProps", <<".", "legacy", "types.ts">>)>>
              [] OTHER -> Source("local edit")])

InitialDisks == {EmptyDisk, EditedDisk}

BarePackageJson == PackageJson("ok", NoDeps, NoDeps)

InitialPackageJsons ==
    {PackageJson("missing", NoDeps, NoDeps),
     PackageJson("malformed", NoDeps, NoDeps),
     BarePackageJson,
     PackageJson("ok", [k \in {"gsap"} |-> "^3.0.0"], [k \in {"vitest"} |-> "^3.0.0"])}

\* How the package manager behaves in one invocation of it.
PmBehaviours == [ok : BOOLEAN, records : {"required", "resolved"}]

\* What a later invocation can be compared with.
Summary ==
    [status |-> report.status,
     outcome |-> report.outcome,
     applied_all |-> /\ planned.status = "ok"
                     /\ \A i \in 1..Len(planned.plan.planned_files) :
                            planned.plan.planned_files[i].apply,
     edits |-> edits]

NoReport ==
    [status |-> "none", files |-> <<>>, exports_updated |-> FALSE,
     runtime |-> NoAction, dev |-> NoAction, outcome |-> ""]

Report(applied) ==
    [status |-> applied.status, files |-> applied.files,
     exports_updated |-> applied.exports_updated,
     runtime |-> applied.runtime, dev |-> applied.dev, outcome |-> applied.outcome]

\* What the front end returns when planning ends the invocation.
PlanReport(result) ==
    [NoReport EXCEPT !.status = IF result.status = "err" THEN "err" ELSE "ok",
                     !.outcome = IF result.status = "noop" THEN "NoOp" ELSE ""]

NotPlanned == [status |-> "none", variant |-> "", message |-> "", plan |-> NoPlan]

\* CommandContext, as the calls of this invocation see it.
Ctx ==
    [workspace_root |-> WorkspaceRoot,
     config |-> setup.config,
     registry |-> TheRegistry,
     fs |-> disk,
     package_json |-> package_json,
     package_manager |-> setup.package_manager]

AddInit ==
    /\ ClearIdle
    /\ SyncIdle
    /\ RaceIdle
    /\ FnIdle
    /\ OrderIdle
    /\ CacheIdle
    /\ setup \in [frontend : {"core", "cli"},
                  config : {NoConfig, SomeConfig(DefaultConfig)},
                  package_manager : {"Unknown", "Npm"}]
    /\ args \in [components : Requests, dry_run : BOOLEAN, mode : ConfirmationModes]
    /\ setup.frontend = "core" => args.mode = "NonInteractive"
    /\ disk \in InitialDisks
    /\ package_json \in InitialPackageJsons
    /\ \/ args.components = <<"grid">> /\ (setup.config.some \/ disk = EmptyDisk)
       \/ /\ setup.config.some
          /\ setup.package_manager = "Npm"
          /\ package_json = BarePackageJson
    /\ pm_calls = <<>>
    /\ phase = "start"
    /\ run = 1
    /\ planned = NotPlanned
    /\ asked = <<>>
    /\ report = NoReport
    /\ history = <<>>
    /\ edits = 0

Planning(result) ==
    /\ planned' = result
    /\ phase' = IF result.status = "ok" THEN "planned" ELSE "done"
    /\ report' = IF result.status = "ok" THEN NoReport ELSE PlanReport(result)
    /\ UNCHANGED <<setup, args, disk, package_json, pm_calls, run, asked, history, edits,
                   fnVars, orderVars, cacheVars,
                   clearVars, syncVars, raceVars>>

\* The caller of the core calls plan(ctx, options).
CorePlan ==
    /\ phase = "start"
    /\ setup.frontend = "core"
    /\ Planning(plan(Ctx, args))

\* The CLI's run, up to the end of its planning loop.
CliPlan ==
    /\ phase = "start"
    /\ setup.frontend = "cli"
    /\ \E proceed \in BOOLEAN : Planning(run_plan(Ctx, args, proceed))

\* PlannedFile::apply is public: the caller of the core clears it on the
\* files it wants left alone.
CallerSelect ==
    /\ phase = "planned"
    /\ setup.frontend = "core"
    /\ \E skipped \in SUBSET (1..Len(planned.plan.planned_files)) :
           planned' = [planned EXCEPT !.plan.planned_files =
                          [i \in 1..Len(@) |->
                              IF i \in skipped THEN [@[i] EXCEPT !.apply = FALSE] ELSE @[i]]]
    /\ phase' = "resolved"
    /\ UNCHANGED <<setup, args, disk, package_json, pm_calls, run, asked, report, history,
                   edits, fnVars, orderVars, cacheVars,
                   clearVars, syncVars, raceVars>>

Settling(settled) ==
    /\ planned' = [planned EXCEPT !.plan.planned_files = settled.planned_files]
    /\ asked' = settled.asked

\* The CLI's run: resolve_file_conflicts; declined are the files whose
\* overwrite the user refuses if asked.
ResolveConflicts ==
    /\ phase = "planned"
    /\ setup.frontend = "cli"
    /\ \E declined \in SUBSET (1..Len(planned.plan.planned_files)) :
           Settling(resolve_file_conflicts(planned.plan.planned_files, args.dry_run,
                                           args.mode, declined))
    /\ phase' = "resolved"
    /\ UNCHANGED <<setup, args, disk, package_json, pm_calls, run, report, history, edits,
                   fnVars, orderVars, cacheVars,
                   clearVars, syncVars, raceVars>>

Applying(applied) ==
    /\ disk' = applied.fs
    /\ package_json' = applied.pkg
    /\ pm_calls' = pm_calls \o applied.calls
    /\ report' = Report(applied)
    /\ phase' = "done"
    /\ UNCHANGED <<setup, args, run, planned, asked, history, edits,
                   fnVars, orderVars, cacheVars,
                   clearVars, syncVars, raceVars>>

\* The caller of the core calls apply(ctx, plan, options).
CoreApply ==
    /\ phase = "resolved"
    /\ setup.frontend = "core"
    /\ \E pm_runtime \in PmBehaviours, pm_dev \in PmBehaviours :
           /\ pm_runtime.records = pm_dev.records
           /\ Applying(apply(Ctx, planned.plan, args, pm_runtime, pm_dev))

\* The CLI's run, from the file loop to its return.
CliApply ==
    /\ phase = "resolved"
    /\ setup.frontend = "cli"
    /\ \E pm_runtime \in PmBehaviours, pm_dev \in PmBehaviours :
           /\ pm_runtime.records = pm_dev.records
           /\ Applying(run_apply(Ctx, planned.plan, args, pm_runtime, pm_dev))

RemoveFile(fs, path) ==
    [fs EXCEPT !.files = [p \in DOMAIN @ \ {FsResolve(path)} |-> @[p]]]

\* Another program (an editor, a second invocation) writes or removes a
\* planned destination or the barrel while this invocation is under way.
ExternalEdit ==
    /\ phase = "planned"
    /\ edits < MaxEdits
    /\ \E path \in {planned.plan.planned_files[i].destination :
                       i \in 1..Len(planned.plan.planned_files)} \cup {BarrelFile} :
           \/ disk' = WriteFile(create_dir_all(disk, Parent(path)), path,
                                Source("edited elsewhere"))
           \/ Exists(disk, path) /\ disk' = RemoveFile(disk, path)
    /\ edits' = edits + 1
    /\ UNCHANGED <<setup, args, package_json, pm_calls, phase, run, planned, asked, report,
                   history, fnVars, orderVars, cacheVars,
                   clearVars, syncVars, raceVars>>

\* The same command is invoked again in the workspace the last one left.
NextRun ==
    /\ phase = "done"
    /\ run < MaxRuns
    /\ run' = run + 1
    /\ history' = Append(history, Summary)
    /\ phase' = "start"
    /\ planned' = NotPlanned
    /\ asked' = <<>>
    /\ report' = NoReport
    /\ UNCHANGED <<setup, args, disk, package_json, pm_calls, edits,
                   fnVars, orderVars, cacheVars,
                   clearVars, syncVars, raceVars>>

AddNext ==
    \/ CorePlan \/ CliPlan \/ CallerSelect \/ ResolveConflicts
    \/ CoreApply \/ CliApply \/ ExternalEdit \/ NextRun

SpecAdd == AddInit /\ [][AddNext]_vars

(***************************************************************************)
(* Planning a request that names an unknown component                      *)
(***************************************************************************)
\* The slugs a request reaches through internal dependencies.
RECURSIVE Reach(_, _)
Reach(slugs, catalog) ==
    LET next == slugs \cup
                UNION {{catalog[s].internal_dependencies[i] :
                           i \in 1..Len(catalog[s].internal_dependencies)} :
                       s \in slugs \cap DOMAIN catalog}
    IN IF next = slugs THEN slugs ELSE Reach(next, catalog)

RequestReach == Reach({args.components[i] : i \in 1..Len(args.components)}, Catalog)

NothingWritten ==
    /\ disk \in InitialDisks
    /\ package_json \in InitialPackageJsons
    /\ pm_calls = <<>>

\* C2: whenever a requested slug, or one reached through internal
\* dependencies, is not in the catalog, the core's plan fails with the error
\* ComponentNotFound, and nothing has been written or installed.
C2_UnknownSlugIsComponentNotFound ==
    (/\ setup.frontend = "core"
     /\ setup.config.some
     /\ run = 1
     /\ phase # "start"
     /\ ~(RequestReach \subseteq DOMAIN Catalog))
        => /\ planned.status = "err"
           /\ planned.variant = "ComponentNotFound"
           /\ NothingWritten

\* What the code does in that case: the failure is reported, but as the
\* catch-all variant.
C2_UnknownSlugFails ==
    (/\ setup.frontend = "core"
     /\ setup.config.some
     /\ run = 1
     /\ phase # "start"
     /\ ~(RequestReach \subseteq DOMAIN Catalog))
        => /\ planned.status = "err"
           /\ planned.variant = "Other"
           /\ phase = "done"
           /\ NothingWritten

(***************************************************************************)
(* Dry runs                                                                *)
(***************************************************************************)
\* A step of the command itself, as opposed to one of another program.
OwnStep == edits' = edits

WorkspaceKept ==
    /\ disk' = disk
    /\ package_json' = package_json
    /\ pm_calls' = pm_calls

\* C6: with dry_run set, no step of the core's apply or of the CLI's add
\* creates or writes a file, a directory or the barrel or invokes the package
\* manager, whatever the plan and the disk; the CLI's add then ends with the
\* outcome NoOp.
C6_DryRunMutatesNothing ==
    [][(args.dry_run /\ OwnStep)
          => /\ WorkspaceKept
             /\ (setup.frontend = "cli" /\ phase' = "done" /\ report'.status = "ok")
                   => report'.outcome = "NoOp"]_vars

\* A dry run of the CLI over an empty workspace that announces files to
\* create, exports to add and packages to install.
C6_Witness ==
    /\ args.dry_run
    /\ setup.frontend = "cli"
    /\ phase = "done"
    /\ report.status = "ok"
    /\ report.outcome = "NoOp"
    /\ \E i \in 1..Len(report.files) : report.files[i].status = "Created"
    /\ report.exports_updated
    /\ report.runtime.action = "DryRun"
    /\ disk = EmptyDisk
    /\ pm_calls = <<>>

(***************************************************************************)
(* Files left alone                                                        *)
(***************************************************************************)
PlannedFiles == planned.plan.planned_files

\* The step in which apply (core) or the rest of run (CLI) is executed.
ApplyStep == phase = "resolved" /\ phase' = "done"

BytesKept(path) == ReadOptional(disk', path) = ReadOptional(disk, path)

\* C7: apply reports Skipped for every planned file whose apply flag is
\* false and leaves that file's destination as it was, the same bytes or
\* still absent, with and without dry_run.
C7_SkippedFileUntouched ==
    [][ApplyStep
          => \A i \in 1..Len(PlannedFiles) :
                ~PlannedFiles[i].apply
                   => /\ report'.status = "ok" => report'.files[i].status = "Skipped"
                      /\ BytesKept(PlannedFiles[i].destination)]_vars

\* What holds of the code: the destination is kept unless another file of
\* the same plan, one that is applied, has the same destination.
C7_SkippedFileNotWritten ==
    [][ApplyStep
          => \A i \in 1..Len(PlannedFiles) :
                ~PlannedFiles[i].apply
                   => /\ report'.status = "ok" => report'.files[i].status = "Skipped"
                      /\ \/ BytesKept(PlannedFiles[i].destination)
                         \/ \E j \in 1..Len(PlannedFiles) :
                               /\ PlannedFiles[j].apply
                               /\ FsResolve(PlannedFiles[j].destination)
                                     = FsResolve(PlannedFiles[i].destination)]_vars

(***************************************************************************)
(* Conflict resolution                                                     *)
(***************************************************************************)
\* The step in which the CLI runs resolve_file_conflicts.
ResolveStepTaken == setup.frontend = "cli" /\ phase = "planned" /\ phase' = "resolved"

PlannedFilesAfter == planned'.plan.planned_files

\* The files the user answered "no" for in this step.
Declined == {asked'[k].file : k \in {j \in 1..Len(asked') : ~asked'[j].overwrite}}

\* C8: in Prompt mode without dry_run, a "no" for one conflicting file clears
\* the apply flag of that file and of no other; the flag, status and contents
\* of every other file and the status and contents of the declined file stay
\* as they were.
C8_DeclineIsPerFile ==
    [][(ResolveStepTaken /\ args.mode = "Prompt" /\ ~args.dry_run)
          => /\ Len(PlannedFilesAfter) = Len(PlannedFiles)
             /\ \A i \in 1..Len(PlannedFiles) :
                   PlannedFilesAfter[i] =
                      IF i \in Declined THEN [PlannedFiles[i] EXCEPT !.apply = FALSE]
                      ELSE PlannedFiles[i]
             /\ Declined \subseteq Conflicts(PlannedFiles)
             /\ WorkspaceKept]_vars

\* Two conflicting files, one declined and one accepted.
C8_Witness ==
    /\ setup.frontend = "cli"
    /\ args.mode = "Prompt"
    /\ ~args.dry_run
    /\ phase = "resolved"
    /\ \E i \in Conflicts(PlannedFiles), j \in Conflicts(PlannedFiles) :
          /\ ~PlannedFiles[i].apply
          /\ PlannedFiles[j].apply
          /\ \E k \in 1..Len(asked) : asked[k].file = i /\ ~asked[k].overwrite
          /\ \E k \in 1..Len(asked) : asked[k].file = j /\ asked[k].overwrite

\* Resolution in the modes that ask nothing.
QuietResolution ==
    (ResolveStepTaken /\ (args.dry_run \/ args.mode \in {"AssumeYes", "NonInteractive"}))
       => /\ PlannedFilesAfter = PlannedFiles
          /\ asked' = <<>>
          /\ WorkspaceKept

AutoOverwrite ==
    setup.frontend = "cli" /\ args.mode = "NonInteractive" /\ ~args.dry_run /\ ApplyStep

\* The applied files of the plan that are written to the destination of
\* file i before it, and at all.
WritersBefore(i) ==
    {j \in 1..(i - 1) : /\ PlannedFiles[j].apply
                        /\ FsResolve(PlannedFiles[j].destination)
                              = FsResolve(PlannedFiles[i].destination)}

Writers(i) ==
    {j \in 1..Len(PlannedFiles) : /\ PlannedFiles[j].apply
                                  /\ FsResolve(PlannedFiles[j].destination)
                                        = FsResolve(PlannedFiles[i].destination)}

Greatest(set) == CHOOSE j \in set : \A k \in set : k <= j

\* The bytes at the destination of file i when its turn to be written comes.
BytesAtWrite(i) ==
    IF WritersBefore(i) = {} THEN ReadOptional(disk, PlannedFiles[i].destination)
    ELSE SomeBytes(PlannedFiles[Greatest(WritersBefore(i))].contents)

Rederived(i) ==
    IF ~BytesAtWrite(i).some THEN "Created"
    ELSE IF BytesAtWrite(i).bytes = PlannedFiles[i].contents THEN "Unchanged"
    ELSE "Updated"

\* C9: in dry-run, assume-yes and non-interactive mode, conflict resolution
\* changes no apply flag and asks no question; so in non-interactive mode a
\* file planned as Update is overwritten by apply and is reported as Updated.
C9_AutoOverwriteIsUpdated ==
    [][/\ QuietResolution
       /\ AutoOverwrite
             => \A i \in Conflicts(PlannedFiles) :
                   /\ ReadOptional(disk', PlannedFiles[i].destination)
                         = SomeBytes(PlannedFiles[i].contents)
                   /\ report'.status = "ok" => report'.files[i].status = "Updated"]_vars

\* C9, amended: in dry-run, assume-yes and non-interactive mode, conflict
\* resolution changes no apply flag and asks no question; so in
\* non-interactive mode a file planned as Update is still selected when apply
\* runs, its destination ends up with the contents of the last selected file
\* of the plan that resolves to it, and its reported status is the one
\* derived from the destination's bytes when it is written: Updated if they
\* differ from the planned contents, Created if the destination is gone,
\* Unchanged if they are already the planned contents.
C9_AutoOverwriteRederived ==
    [][/\ QuietResolution
       /\ AutoOverwrite
             => \A i \in Conflicts(PlannedFiles) :
                   /\ PlannedFiles[i].apply
                   /\ ReadOptional(disk', PlannedFiles[i].destination)
                         = SomeBytes(PlannedFiles[Greatest(Writers(i))].contents)
                   /\ report'.status = "ok" => report'.files[i].status = Rederived(i)]_vars

\* A non-interactive run that overwrote a locally edited file without asking.
C9_Witness ==
    /\ setup.frontend = "cli"
    /\ args.mode = "NonInteractive"
    /\ ~args.dry_run
    /\ phase = "done"
    /\ report.status = "ok"
    /\ asked = <<>>
    /\ \E i \in Conflicts(PlannedFiles) :
          /\ PlannedFiles[i].apply
          /\ report.files[i].status = "Updated"
          /\ ReadOptional(disk, PlannedFiles[i].destination)
                = SomeBytes(PlannedFiles[i].contents)

(***************************************************************************)
(* Running the same command twice                                          *)
(***************************************************************************)
\* The second invocation has ended, both invocations planned and applied
\* every file without dry_run, and nothing else wrote the workspace.
SecondRunDone ==
    /\ run = 2
    /\ phase = "done"
    /\ ~args.dry_run
    /\ edits = 0
    /\ history[1].status = "ok"
    /\ history[1].applied_all
    /\ planned.status = "ok"
    /\ \A i \in 1..Len(PlannedFiles) : PlannedFiles[i].apply

\* C3: after a plan and an apply without dry_run that applied every file, a
\* second plan and apply, with the registry unchanged and no edit in between,
\* reports Unchanged for every planned file, leaves the barrel alone and ends
\* with the outcome "no changes".
C3_SecondRunChangesNothing ==
    SecondRunDone
       => /\ report.status = "ok"
          /\ \A i \in 1..Len(report.files) : report.files[i].status = "Unchanged"
          /\ Len(report.files) = Len(PlannedFiles)
          /\ ~report.exports_updated
          /\ setup.frontend = "cli" => report.outcome = "NoOp"

\* The plans for which the second run does change nothing: no two files with
\* one destination, no two exports with one name, and every requirement
\* judged satisfied by what the first run left in package.json.
PlanIsRegular ==
    /\ \A i, j \in 1..Len(PlannedFiles) :
          FsResolve(PlannedFiles[i].destination) = FsResolve(PlannedFiles[j].destination)
             => i = j
    /\ \A i, j \in 1..Len(planned.plan.installed_components) :
          planned.plan.installed_components[i].export_name
             = planned.plan.installed_components[j].export_name => i = j
    /\ report.runtime.action # "Installed"
    /\ report.dev.action # "Installed"

C3_RegularSecondRunChangesNothing ==
    (SecondRunDone /\ report.status = "ok" /\ PlanIsRegular)
       => /\ \A i \in 1..Len(report.files) : report.files[i].status = "Unchanged"
          /\ Len(report.files) = Len(PlannedFiles)
          /\ ~report.exports_updated
          /\ setup.frontend = "cli" => report.outcome = "NoOp"

(***************************************************************************)
(* core/src/components.rs: render_component_barrel as a function           *)
(***************************************************************************)
MaxSpecs == 2

ComponentSpec(export_name, entry_path) ==
    [export_name |-> export_name, entry_path |-> entry_path]

TypeSpec(export_names, entry_path) ==
    [export_names |-> export_names, entry_path |-> entry_path]

\* ComponentExportSpec values: two of one name, one outside the components root.
ComponentSpecs ==
    {ComponentSpec("Grid", LibDir \o <<"grid", "Grid.svelte">>),
     ComponentSpec("Grid", LibDir \o <<"old", "Grid.svelte">>),
     ComponentSpec("Legacy", LibDir \o <<"legacy", "Legacy.svelte">>),
     ComponentSpec("Cn", WorkspaceRoot \o <<"src", "lib", "shared", "Cn.svelte">>)}

\* TypeExportSpec values: an empty name, and a name exported from two files.
TypeSpecs ==
    {TypeSpec(<<"GridProps", "">>, LibDir \o <<"grid", "types.ts">>),
     TypeSpec(<<"GridProps", "LegacyProps">>, LibDir \o <<"old", "types.ts">>),
     TypeSpec(<<"Halo">>, LibDir \o <<"halo", "types.ts">>)}

LegacyImport == <<".", "legacy", "Legacy.svelte">>

\* Barrel texts: none, as render writes them, and as people and formatters
\* leave them (a comment, several names on a type line, single quotes, no
\* semicolon, a name exported twice).
ExistingBarrels ==
    {<<>>,
     <<ComponentLine("Grid", <<".", "grid", "Grid.svelte">>),
       ComponentLine("Legacy", LegacyImport),
       TypeLine("GridProps", <<".", "grid", "types.ts">>)>>,
     <<TextLine("// generated"),
       ComponentLine("Halo", <<".", "halo", "Halo.svelte">>),
       TypesLine(<<"Dup", "LegacyProps">>, <<".", "legacy", "types.ts">>)>>,
     <<RawLine("component", "Legacy", <<"'">>, LegacyImport, <<"';">>),
       RawLine("type", "LegacyProps", <<"'">>, <<".", "legacy", "types.ts">>, <<"';">>)>>,
     <<RawLine("component", "Legacy", <<"\"">>, LegacyImport, <<"\"">>)>>,
     <<ComponentLine("Twin", <<".", "twin", "twin-item.svelte">>),
       ComponentLine("Twin", <<".", "twin", "twin.svelte">>)>>}

Reorderings(seq) ==
    {[i \in 1..Len(seq) |-> seq[f[i]]] :
        f \in {g \in [1..Len(seq) -> 1..Len(seq)] : \A i, j \in 1..Len(seq) : g[i] = g[j] => i = j}}

RenderOf(component_specs, type_specs, existing) ==
    render_component_barrel(WorkspaceRoot, DefaultConfig, component_specs, type_specs, existing)

BarrelInit ==
    /\ ClearIdle
    /\ SyncIdle
    /\ RaceIdle
    /\ OrderIdle
    /\ CacheIdle
    /\ AddIdle
    /\ call = "none"
    /\ ret = "none"
    /\ arg \in [existing : ExistingBarrels,
                components : BoundedSeq(ComponentSpecs, MaxSpecs),
                type_exports : BoundedSeq(TypeSpecs, MaxSpecs)]

Rendering(name, first, component_specs, type_specs, existing) ==
    /\ call' = name
    /\ ret' = [first |-> first, components |-> component_specs, type_exports |-> type_specs,
               existing |-> existing,
               second |-> RenderOf(component_specs, type_specs, existing)]
    /\ UNCHANGED <<arg, orderVars, cacheVars, addVars,
                   clearVars, syncVars, raceVars>>

\* render_component_barrel(root, config, components, type_exports, existing)
RenderBarrel ==
    /\ call = "none"
    /\ call' = "render_component_barrel"
    /\ ret' = [first |-> RenderOf(arg.components, arg.type_exports, arg.existing),
               components |-> arg.components, type_exports |-> arg.type_exports,
               existing |-> arg.existing, second |-> NoText]
    /\ UNCHANGED <<arg, orderVars, cacheVars, addVars,
                   clearVars, syncVars, raceVars>>

\* The same call made against the text the first call returned.
RenderAgain ==
    /\ call = "render_component_barrel"
    /\ ret.first.some
    /\ Rendering("again", ret.first, arg.components, arg.type_exports, ret.first.text)

\* The same call made with the two lists in another order.
RenderPermuted ==
    /\ call = "render_component_barrel"
    /\ \E component_specs \in Reorderings(arg.components),
          type_specs \in Reorderings(arg.type_exports) :
         Rendering("permuted", ret.first, component_specs, type_specs, arg.existing)

BarrelNext == RenderBarrel \/ RenderAgain \/ RenderPermuted

SpecBarrel == BarrelInit /\ [][BarrelNext]_vars

Names(specs) == {specs[i].export_name : i \in 1..Len(specs)}

TypeNames(specs) ==
    UNION {{specs[i].export_names[k] : k \in DOMAIN specs[i].export_names} :
              i \in 1..Len(specs)} \ {""}

ReExports(text) == {i \in 1..Len(text) : text[i].kind \in {"component", "type"}}

OneLinePerName(text) ==
    \A i, j \in ReExports(text) :
        (text[i].kind = text[j].kind /\ text[i].name = text[j].name) => i = j

\* C16: barrel rendering is idempotent: when render returns text T for an
\* existing barrel and lists of export specs, rendering the same specs
\* against T returns None, and T has at most one line per exported
\* component name and per exported type name.
C16_RenderIdempotent ==
    call = "again" => (~ret.second.some /\ OneLinePerName(ret.first.text))

\* No export name is given two entry paths by the lists.
SpecsAgree(component_specs, type_specs) ==
    /\ \A i, j \in 1..Len(component_specs) :
           component_specs[i].export_name = component_specs[j].export_name
              => component_specs[i].entry_path = component_specs[j].entry_path
    /\ \A i, j \in 1..Len(type_specs) :
           (TypeNames(<<type_specs[i]>>) \cap TypeNames(<<type_specs[j]>>) # {})
              => type_specs[i].entry_path = type_specs[j].entry_path

\* What the code does: it is idempotent for lists that give each name one path.
C16_RenderIdempotentWhenSpecsAgree ==
    (call = "again" /\ SpecsAgree(arg.components, arg.type_exports))
       => (~ret.second.some /\ OneLinePerName(ret.first.text))

\* C17: for every existing barrel the result of render is the same for every
\* order of the component export list and of the type export list.
C17_OrderIndependent == call = "permuted" => ret.second = ret.first

C17_OrderIndependentWhenSpecsAgree ==
    (call = "permuted" /\ SpecsAgree(arg.components, arg.type_exports))
       => ret.second = ret.first

\* The module a re-export line imports from: what stands between the quotes.
ImportOf(line) == SubSeq(line.from, 2, Len(line.from) - 1)

Entries(text) == {SplitNames(text)[i] : i \in ReExports(SplitNames(text))}

Kept(entry, text) ==
    \E i \in ReExports(text) :
        /\ text[i].kind = entry.kind
        /\ text[i].name = entry.name
        /\ ImportOf(text[i]) = ImportOf(entry)

\* C18: every default-export or type re-export entry of the existing barrel
\* whose name is not among the requested exports is in the rendered barrel
\* with the same name and the same import path.
C18_UnrelatedEntriesKept ==
    (call = "render_component_barrel" /\ ret.first.some)
       => \A entry \in Entries(arg.existing) :
              entry.name \notin Names(arg.components) \cup TypeNames(arg.type_exports)
                 => Kept(entry, ret.first.text)

\* A barrel in the form render writes: double quotes, `";` at the end.
AsRendered(text) ==
    \A i \in ReExports(SplitNames(text)) :
        LET from == SplitNames(text)[i].from
        IN from[1] = "\"" /\ from[Len(from)] = "\";" /\ OneLinePerName(SplitNames(text))

\* What the code does: entries of a barrel in that form are kept.
C18_UnrelatedEntriesKeptWhenAsRendered ==
    (call = "render_component_barrel" /\ ret.first.some /\ AsRendered(arg.existing))
       => \A entry \in Entries(arg.existing) :
              entry.name \notin Names(arg.components) \cup TypeNames(arg.type_exports)
                 => Kept(entry, ret.first.text)

\* An invocation that got as far as its dependency handling and returned Ok.
AppliedOk == phase = "done" /\ planned.status = "ok" /\ report.status = "ok"

\* The required packages whose specifier the snapshot does not satisfy.
Unsatisfied(requirements) ==
    {name \in DOMAIN requirements :
        ~spec_satisfies(SnapshotSpec(planned.plan.package_snapshot, name), requirements[name])}

ScopeAction(requirements) ==
    IF Unsatisfied(requirements) = {} THEN DependencyAction("AlreadyInstalled", {})
    ELSE IF setup.package_manager = "Unknown"
    THEN DependencyAction("Manual", Unsatisfied(requirements))
    ELSE IF args.dry_run THEN DependencyAction("DryRun", Unsatisfied(requirements))
    ELSE DependencyAction("Installed", Unsatisfied(requirements))

Invoked(packages) == \E i \in 1..Len(pm_calls) : pm_calls[i].packages = packages

\* C19: for each dependency scope the action is AlreadyInstalled when the
\* snapshot leaves no required specifier unsatisfied, otherwise Manual when
\* the package manager is Unknown (dry-run or not), otherwise DryRun when
\* dry_run is set, otherwise Installed after the package manager was invoked;
\* the package manager is never invoked when it is Unknown or in a dry run.
C19_DependencyActions ==
    /\ AppliedOk
          => /\ report.runtime = ScopeAction(planned.plan.runtime_requirements)
             /\ report.dev = ScopeAction(planned.plan.dev_requirements)
             /\ report.runtime.action = "Installed" => Invoked(report.runtime.packages)
             /\ report.dev.action = "Installed" => Invoked(report.dev.packages)
    /\ (setup.package_manager = "Unknown" \/ args.dry_run) => pm_calls = <<>>

\* The core's apply in a dry run without a package manager: Manual, not DryRun.
C19_Witness ==
    /\ AppliedOk
    /\ setup.frontend = "core"
    /\ setup.package_manager = "Unknown"
    /\ args.dry_run
    /\ report.runtime.action = "Manual"
    /\ report.runtime.packages # {}
    /\ pm_calls = <<>>

\* The core's apply installing with a package manager.
C19_Installed ==
    /\ AppliedOk
    /\ setup.frontend = "core"
    /\ report.runtime.action = "Installed"
    /\ pm_calls # <<>>

MadeChanges ==
    /\ ~args.dry_run
    /\ \/ \E i \in 1..Len(report.files) : report.files[i].status \in {"Created", "Updated"}
       \/ report.exports_updated
       \/ report.runtime.action = "Installed"
       \/ report.dev.action = "Installed"

\* C20: the add command's outcome is Completed exactly when dry-run is off
\* and a file was reported Created or Updated, or the exports were updated,
\* or runtime or dev dependencies were installed; every other run that ends
\* without error has outcome NoOp.
C20_Outcome ==
    (setup.frontend = "cli" /\ phase = "done" /\ report.status = "ok")
       => report.outcome = IF MadeChanges THEN "Completed" ELSE "NoOp"

\* A run that is Completed for its install alone.
C20_Witness ==
    /\ setup.frontend = "cli" /\ AppliedOk
    /\ report.outcome = "Completed"
    /\ report.runtime.action = "Installed"
    /\ ~report.exports_updated
    /\ \A i \in 1..Len(report.files) : report.files[i].status \notin {"Created", "Updated"}

\* A dry run that reports files and exports as changed, and is NoOp.
C20_DryRunIsNoOp ==
    /\ setup.frontend = "cli" /\ AppliedOk
    /\ args.dry_run
    /\ report.exports_updated
    /\ report.outcome = "NoOp"

ManifestUnreadable == package_json.state # "ok"

PlanFailedOnManifest(result) ==
    result.status = "err" /\ result.message = "failed to read package.json"

\* C21: when the workspace has no package.json, or one that does not parse,
\* planning does not fail because of it and the package manager is invoked
\* for neither scope.
C21_ManifestBestEffort ==
    [][ManifestUnreadable
          => /\ phase = "start" => ~PlanFailedOnManifest(planned')
             /\ pm_calls' = pm_calls]_vars

\* What the CLI does: its planning never fails on the manifest.
C21_CliPlansWithoutManifest ==
    [][(ManifestUnreadable /\ setup.frontend = "cli" /\ phase = "start")
          => ~PlanFailedOnManifest(planned')]_vars

\* What the core does: apply is never reached, so nothing is installed.
C21_CoreInstallsNothing ==
    [][(ManifestUnreadable /\ setup.frontend = "core") => pm_calls' = pm_calls]_vars

(***************************************************************************)
(* cli/src/deps.rs: spec_satisfies as a function                           *)
(***************************************************************************)
\* Specifiers: empty, blank, padded, caret ranges, and two semver rejects.
Specifiers ==
    {"", " ", "^3.0.0", " ^3.0.0 ", "^3.12.0", "^3.12.5", "latest", "workspace:*"}

SatisfiesInit ==
    /\ ClearIdle
    /\ SyncIdle
    /\ RaceIdle
    /\ OrderIdle
    /\ CacheIdle
    /\ AddIdle
    /\ call = "none"
    /\ ret = "none"
    /\ arg \in [installed : {NoSpec} \cup {SomeSpec(spec) : spec \in Specifiers},
                required : Specifiers]

\* spec_satisfies(snapshot.spec(name), version)
SpecSatisfies ==
    /\ call = "none"
    /\ call' = "spec_satisfies"
    /\ ret' = spec_satisfies(arg.installed, arg.required)
    /\ UNCHANGED <<arg, orderVars, cacheVars, addVars,
                   clearVars, syncVars, raceVars>>

SatisfiesNext == SpecSatisfies

SpecSatisfiesFn == SatisfiesInit /\ [][SatisfiesNext]_vars

AbsentOrEmpty ==
    ~arg.installed.some \/ trim(arg.installed.spec) = "" \/ trim(arg.required) = ""

SameString == arg.installed.some /\ arg.installed.spec = arg.required

\* C22: equality of the two strings is tested first and always passes,
\* before the rule for an absent or empty side; when they differ, the result
\* is false if either side is absent or empty after trimming.
C22_EqualityFirst ==
    call = "spec_satisfies"
       => /\ SameString => ret
          /\ (~SameString /\ AbsentOrEmpty) => ~ret

\* C22 as the code has it: an absent or empty side gives false, equal or
\* not; after that, strings equal after trimming pass before any parsing.
C22_EmptyFirst ==
    call = "spec_satisfies"
       => /\ AbsentOrEmpty => ~ret
          /\ (~AbsentOrEmpty /\ trim(arg.installed.spec) = trim(arg.required)) => ret

\* Two empty specifiers compared: the same string, and not satisfied.
C22_Witness ==
    /\ call = "spec_satisfies"
    /\ SameString
    /\ arg.required = ""
    /\ ~ret

\* Equal strings that semver rejects pass.
C22_EqualUnparsed ==
    call = "spec_satisfies" /\ SameString /\ arg.required = "latest" /\ ret

(***************************************************************************)
(* core/src/cache.rs, core/src/operations/cache.rs: the cache command      *)
(***************************************************************************)
ClearScopes == {"registry-A", "registry-B"}

ClearKeys == ClearScopes \X ManifestKinds

Store(root, files) == [root |-> root, files |-> files]

EmptiedStore == Store(FALSE, [key \in ClearKeys |-> MissingFile])

\* CacheStore::ensure_root: a failure to create the directory is logged only.
ensure_root(store, create_ok) == IF create_ok THEN [store EXCEPT !.root = TRUE] ELSE store

\* A clear that only makes sure the root is there (mutant).
clear_keeping_entries(store, remove_ok, create_ok) ==
    IF store.root /\ ~remove_ok THEN [ok |-> FALSE, store |-> store]
    ELSE [ok |-> TRUE, store |-> ensure_root(store, create_ok)]

\* CacheStore::clear: `if root.exists() { remove_dir_all(root)? }; ensure_root();
\* Ok(())`. remove_ok and create_ok say what the file system lets through.
clear(store, remove_ok, create_ok) ==
    IF store.root /\ ~remove_ok THEN [ok |-> FALSE, store |-> store]
    ELSE IF store.root THEN [ok |-> TRUE, store |-> ensure_root(EmptiedStore, create_ok)]
    ELSE [ok |-> TRUE, store |-> ensure_root(store, create_ok)]

\* CacheResult or CacheError, and the store the call leaves.
CacheRan(ok, variant, cleared, store) ==
    [ok |-> ok, variant |-> variant, cleared |-> cleared, store |-> store]

RanClear(cleared) ==
    IF cleared.ok THEN CacheRan(TRUE, "", TRUE, cleared.store)
    ELSE CacheRan(FALSE, "ClearFailed", FALSE, cleared.store)

\* A command that clears without being forced to (mutant).
cache_run_unconfirmed(store, options, remove_ok, create_ok) ==
    IF options.clear THEN RanClear(clear(store, remove_ok, create_ok))
    ELSE CacheRan(TRUE, "", FALSE, store)

\* operations::cache::run(ctx, options)
cache_run(store, options, remove_ok, create_ok) ==
    IF options.clear
    THEN IF ~options.force THEN CacheRan(FALSE, "ConfirmationRequired", FALSE, store)
         ELSE RanClear(clear(store, remove_ok, create_ok))
    ELSE CacheRan(TRUE, "", FALSE, store)

ClearTimes == {0, STALE_MAX_AGE + 1}

Held(files) == {key \in ClearKeys : files[key].exists}

\* CacheStore::from_path has called ensure_root; the directory is there
\* unless that failed, and entries are only found in a directory.
ClearInit ==
    /\ SyncIdle
    /\ RaceIdle
    /\ FnIdle
    /\ OrderIdle
    /\ AddIdle
    /\ ttl = [registry_ttl |-> DEFAULT_REGISTRY_TTL, asset_ttl |-> DEFAULT_ASSET_TTL]
    /\ now = 0
    /\ cache_root \in BOOLEAN
    /\ cache_files \in [ClearKeys -> {MissingFile, CachedFile(0, "b1")}]
    /\ ~cache_root => cache_files = EmptiedStore.files
    /\ \A scope \in ClearScopes :
           cache_files[<<scope, REGISTRY_JSON>>].exists
              = cache_files[<<scope, COMPONENTS_JSON>>].exists
    /\ cache_files[<<"registry-B", REGISTRY_JSON>>].exists
           => cache_files[<<"registry-A", REGISTRY_JSON>>].exists
    /\ last_read = NoRead
    /\ last_write = NoWrite
    /\ client = NoClient
    /\ last_load = NoLoad
    /\ last_clear = NoClear

ClearAdvance ==
    /\ \E t \in ClearTimes : t > now /\ now' = t
    /\ last_read' = NoRead
    /\ UNCHANGED <<cache_files, ttl, last_write, client, last_load, cache_root, last_clear,
                   fnVars, orderVars, addVars,
                   syncVars, raceVars>>

\* write_registry_manifest / write_components_manifest: a write that goes
\* through has made the directories on its way.
ClearWritten(key, result) ==
    /\ cache_files' = result.files
    /\ cache_root' = (cache_root \/ result.outcome.written)
    /\ last_clear' = IF result.outcome.written
                     THEN [last_clear EXCEPT !.written = @ \cup {key}]
                     ELSE last_clear

ClearWrite ==
    /\ \E key \in ClearKeys, io_ok \in BOOLEAN :
           ClearWritten(key, write_manifest(cache_files, key, "b2", now, io_ok))
    /\ last_read' = NoRead
    /\ UNCHANGED <<ttl, now, last_write, client, last_load, fnVars, orderVars, addVars,
                   syncVars, raceVars>>

\* registry_manifest(allow_stale) / components_manifest(allow_stale)
ClearRead ==
    /\ \E key \in ClearKeys, allow_stale \in BOOLEAN :
           LET data == read_file(cache_files[key], KindTtl(ttl, key[2]), allow_stale, now)
           IN last_read' = [called |-> TRUE, key |-> key, allow_stale |-> allow_stale,
                            some |-> data.some, bytes |-> data.bytes, fresh |-> data.fresh]
    /\ UNCHANGED <<cache_files, ttl, now, last_write, client, last_load, cache_root,
                   last_clear, fnVars, orderVars, addVars,
                   syncVars, raceVars>>

CacheRunDone(options, ran) ==
    /\ cache_root' = ran.store.root
    /\ cache_files' = ran.store.files
    /\ last_clear' = [called |-> TRUE, options |-> options, ok |-> ran.ok,
                      variant |-> ran.variant, cleared |-> ran.cleared,
                      root_before |-> cache_root, held_before |-> Held(cache_files),
                      written |-> {}]

\* `motion-core cache [--clear [--force]]`
CacheRun ==
    /\ \E options \in [clear : BOOLEAN, force : BOOLEAN], remove_ok \in BOOLEAN,
          create_ok \in BOOLEAN :
           CacheRunDone(options,
                        cache_run(Store(cache_root, cache_files), options, remove_ok, create_ok))
    /\ last_read' = NoRead
    /\ UNCHANGED <<ttl, now, last_write, client, last_load, fnVars, orderVars, addVars,
                   syncVars, raceVars>>

ClearNext == ClearAdvance \/ ClearWrite \/ ClearRead \/ CacheRun

SpecClear == ClearInit /\ [][ClearNext]_vars

NoEntryLeft == \A key \in ClearKeys : ~cache_files[key].exists

ReadAfterClear ==
    last_clear.cleared /\ last_read.called /\ last_read.key \notin last_clear.written

C23_NoRoot == last_clear.cleared /\ last_clear.written = {} /\ ~cache_root


\* The step is a run of the cache command with these options.
RanWith(clear_option, force_option) ==
    /\ last_clear' # last_clear
    /\ last_clear'.called
    /\ last_clear'.written = {}
    /\ last_clear'.options = [clear |-> clear_option, force |-> force_option]

\* C24: with clear = true and force = false the cache operation returns the
\* error ConfirmationRequired and deletes nothing; with clear = false it
\* deletes nothing and reports cleared = false; only clear = true together
\* with force = true clears the cache and reports cleared = true.
C24_ClearNeedsForce ==
    [][/\ RanWith(TRUE, FALSE)
          => /\ ~last_clear'.ok /\ last_clear'.variant = "ConfirmationRequired"
             /\ UNCHANGED <<cache_files, cache_root>>
       /\ (\E force_option \in BOOLEAN : RanWith(FALSE, force_option))
          => /\ last_clear'.ok /\ ~last_clear'.cleared
             /\ UNCHANGED <<cache_files, cache_root>>
       /\ (RanWith(TRUE, TRUE) /\ last_clear'.ok)
          => /\ last_clear'.cleared
             /\ \A key \in ClearKeys : ~cache_files'[key].exists
       /\ (last_clear' # last_clear /\ last_clear'.cleared)
          => last_clear'.options = [clear |-> TRUE, force |-> TRUE]]_vars

\* The command refused on a cache that holds entries, which are still there.
C24_Witness ==
    /\ last_clear.called
    /\ last_clear.options = [clear |-> TRUE, force |-> FALSE]
    /\ last_clear.variant = "ConfirmationRequired"
    /\ last_clear.held_before # {}
    /\ last_clear.written = {}
    /\ Held(cache_files) = last_clear.held_before

\* The command forced on a cache that holds entries: cleared.
C24_Cleared ==
    /\ last_clear.cleared
    /\ last_clear.held_before # {}
    /\ last_clear.written = {}
    /\ NoEntryLeft


(***************************************************************************)
(* cli/src/commands/add.rs: a missing config or an unknown slug            *)
(***************************************************************************)
\* The request cannot be planned: there is no motion-core.json, or a slug of
\* the request or of its transitive internal dependencies is unknown.
UsageMistake == ~setup.config.some \/ ~(RequestReach \subseteq DOMAIN Catalog)

\* C25: when the workspace config is missing, or a requested slug or one of
\* its transitive internal dependencies is not in the catalog, the CLI's add
\* command ends at its planning step with the NoOp outcome and no error, and
\* it has written no file and installed nothing.
C25_UsageMistakeIsNoOp ==
    [][(/\ setup.frontend = "cli"
        /\ phase = "start"
        /\ UsageMistake)
           => /\ phase' = "done"
              /\ planned'.status = "noop"
              /\ planned'.message \in {"no motion-core.json found",
                                       "component not found in registry"}
              /\ report'.status = "ok"
              /\ report'.outcome = "NoOp"
              /\ disk' = disk
              /\ package_json' = package_json
              /\ pm_calls' = pm_calls]_vars

\* The CLI was asked for halo, whose internal dependency ghost is not in the
\* catalog, and returned NoOp.
C25_Witness ==
    /\ setup.frontend = "cli"
    /\ setup.config.some
    /\ args.components = <<"halo">>
    /\ "ghost" \in RequestReach
    /\ phase = "done"
    /\ planned.message = "component not found in registry"
    /\ report.status = "ok"
    /\ report.outcome = "NoOp"
    /\ pm_calls = <<>>

\* The CLI was run in a workspace with no motion-core.json and returned NoOp.
C25_MissingConfig ==
    /\ setup.frontend = "cli"
    /\ ~setup.config.some
    /\ phase = "done"
    /\ planned.message = "no motion-core.json found"
    /\ report.outcome = "NoOp"


(***************************************************************************)
(* core/src/operations/add.rs: the order and the end of the closure        *)
(***************************************************************************)
\* The slugs in the order the stack traversal first visits them: the loop
\* of resolve_install_order with the visited slugs kept as a list.
RECURSIVE Discovery(_, _, _)
Discovery(q, visited, catalog) ==
    IF q = <<>> THEN visited
    ELSE LET step == ResolveStep(q, SeqSet(visited), catalog)
         IN IF step.err # "none" THEN visited
            ELSE Discovery(step.queue,
                           IF Last(q) \in SeqSet(visited) THEN visited
                           ELSE Append(visited, Last(q)),
                           catalog)

DiscoveryOrder == Discovery(requested, <<>>, components)

Ascending(s) == \A i, j \in 1..Len(s) : i < j => SlugRank(s[i]) < SlugRank(s[j])

Expands(slug) ==
    /\ order.status = "running"
    /\ queue # <<>>
    /\ Last(queue) = slug
    /\ slug \in DOMAIN components
    /\ slug \notin resolved

\* The traversal always reaches its return.
SpecOrderFair == SpecOrder /\ WF_vars(OrderNext)

\* C27: the traversal returns for every catalog and every request, cycles,
\* self-references and repeated slugs included, and a catalog slug is
\* expanded at most once: a slug that was expanded stays in `resolved`, and
\* popping a slug that is in `resolved` pushes nothing.
C27_Terminates ==
    /\ <>Returned
    /\ [][/\ resolved \subseteq resolved'
          /\ \A slug \in CatalogSlugs : Expands(slug) => slug \in resolved'
          /\ (/\ order.status = "running"
              /\ queue # <<>>
              /\ Last(queue) \in resolved)
                 => /\ queue' = Front(queue)
                    /\ resolved' = resolved]_vars

\* The traversal returned an order for a request that repeats a slug, over
\* a catalog with a self-reference and a cycle.
C27_Witness ==
    /\ order.status = "ok"
    /\ requested = <<"grid", "grid">>
    /\ components["grid"].internal_dependencies = <<"grid", "halo">>
    /\ components["halo"].internal_dependencies = <<"grid">>
    /\ order.order = <<"grid", "halo">>
    /\ queue = <<>>


(***************************************************************************)
(* core/src/operations/add.rs: what apply writes and reports for a file    *)
(***************************************************************************)
\* The status of file i as its destination is when write_component_file is
\* called for it: a dry run writes nothing, so every file sees the disk as
\* apply found it; otherwise the earlier files of the plan are written.
StatusAtWrite(i) ==
    IF ~args.dry_run THEN Rederived(i)
    ELSE IF ~Exists(disk, PlannedFiles[i].destination) THEN "Created"
    ELSE IF FsRead(disk, PlannedFiles[i].destination) = PlannedFiles[i].contents
    THEN "Unchanged"
    ELSE "Updated"

\* C28: for every planned file with apply set, the status apply reports is
\* derived from the destination when the file is written (Created if it
\* does not exist, Unchanged if it holds the planned bytes, Updated
\* otherwise), and after an apply without dry_run the destination holds
\* exactly the file's planned contents, whatever was done to it since
\* planning.
C28_AppliedFileHoldsPlanned ==
    [][ApplyStep
          => \A i \in 1..Len(PlannedFiles) :
                PlannedFiles[i].apply
                   => /\ report'.status = "ok" => report'.files[i].status = StatusAtWrite(i)
                      /\ ~args.dry_run
                            => ReadOptional(disk', PlannedFiles[i].destination)
                                  = SomeBytes(PlannedFiles[i].contents)]_vars

\* What holds of the code: the status is the re-derived one, and the
\* destination holds the contents of the last applied file of the plan that
\* resolves to it; a dry run leaves it as it was.
C28_LastWriterHolds ==
    [][ApplyStep
          => \A i \in 1..Len(PlannedFiles) :
                PlannedFiles[i].apply
                   => /\ report'.status = "ok" => report'.files[i].status = StatusAtWrite(i)
                      /\ ~args.dry_run
                            => ReadOptional(disk', PlannedFiles[i].destination)
                                  = SomeBytes(PlannedFiles[Greatest(Writers(i))].contents)
                      /\ args.dry_run => BytesKept(PlannedFiles[i].destination)]_vars

\* A destination that was removed after planning is reported Created and
\* holds the planned contents after apply.
C28_RemovedSincePlanning ==
    /\ phase = "done"
    /\ ~args.dry_run
    /\ edits > 0
    /\ report.status = "ok"
    /\ \E i \in 1..Len(PlannedFiles) :
          /\ PlannedFiles[i].apply
          /\ PlannedFiles[i].status = "Update"
          /\ report.files[i].status = "Created"
          /\ ReadOptional(disk, PlannedFiles[i].destination)
                = SomeBytes(PlannedFiles[i].contents)


(***************************************************************************)
(* core/src/operations/add.rs, core/src/pkg_manager.rs: the dev flag       *)
(***************************************************************************)
\* The package names the catalog requires in each scope.
RuntimePackages == UNION {DOMAIN Catalog[slug].dependencies : slug \in DOMAIN Catalog}

DevPackages == UNION {DOMAIN Catalog[slug].dev_dependencies : slug \in DOMAIN Catalog}

\* Every invocation of the package manager so far has InstallPlan::dev false
\* for packages of the runtime scope and true for packages of the dev scope.
DevFlagPerScope ==
    \A i \in 1..Len(pm_calls) :
       /\ pm_calls[i].packages \subseteq RuntimePackages => ~pm_calls[i].dev
       /\ pm_calls[i].packages \subseteq DevPackages => pm_calls[i].dev

\* C29: when apply installs dependencies, it invokes the package manager
\* with the dev flag false for the runtime requirements and with the dev
\* flag true for the dev requirements.
C29_DevFlagPerScope == setup.frontend = "core" => DevFlagPerScope

\* What the core does: every InstallPlan it runs has dev = false.
C29_CoreNeverSetsDev ==
    setup.frontend = "core" => \A i \in 1..Len(pm_calls) : ~pm_calls[i].dev

\* The CLI's install blocks set the flag per scope.
C29_CliDevFlagPerScope == setup.frontend = "cli" => DevFlagPerScope

\* The core installed the dev requirement vitest with the dev flag false.
C29_CoreDevInstall ==
    /\ AppliedOk
    /\ setup.frontend = "core"
    /\ report.dev = DependencyAction("Installed", {"vitest"})
    /\ \E i \in 1..Len(pm_calls) : pm_calls[i] = [dev |-> FALSE, packages |-> {"vitest"}]
    /\ "vitest" \in DOMAIN package_json.dependencies


(***************************************************************************)
(* core/src/operations/add.rs: the order of apply and a failed install     *)
(***************************************************************************)
\* The package-manager invocations of this step.
NewCalls == SubSeq(pm_calls', Len(pm_calls) + 1, Len(pm_calls'))

\* The specifier package.json records for a package, if any.
SpecIn(pkg, name) == SnapshotSpec(PackageSnapshotLoad(pkg).snapshot, name)

\* The package manager has recorded in package.json every package of the
\* scope that the plan found unsatisfied: the install of the scope succeeded.
Landed(requirements) ==
    \A name \in Unsatisfied(requirements) :
       \E how \in {"required", "resolved"} :
          SpecIn(package_json', name) = SomeSpec(Recorded(requirements[name], how))

\* This step runs the package manager for the scope.
Attempted(requirements) ==
    \E j \in 1..Len(NewCalls) : NewCalls[j].packages = Unsatisfied(requirements)

\* Installs happen in this step: a package manager is known, it is no dry run.
Installing == setup.package_manager # "Unknown" /\ ~args.dry_run

\* The planned files and the barrel are on disk after this step.
FilesAndBarrelWritten ==
    /\ \A i \in 1..Len(PlannedFiles) :
          PlannedFiles[i].apply
             => ReadOptional(disk', PlannedFiles[i].destination)
                   = SomeBytes(PlannedFiles[Greatest(Writers(i))].contents)
    /\ LET rendered == render_component_barrel(WorkspaceRoot, setup.config.value,
                                               planned.plan.installed_components,
                                               planned.plan.registered_type_exports,
                                               planned.plan.existing_barrel)
       IN rendered.some
             => ReadOptional(disk', workspace_path(WorkspaceRoot, setup.config.value.barrel))
                   = SomeBytes(rendered.text)

\* C30: apply handles the planned files, then the barrel, then the runtime
\* requirements, then the dev requirements. The package manager is invoked
\* for the runtime scope before the dev scope and for the dev scope only
\* once the runtime install has succeeded; when the runtime install fails,
\* apply returns an error, the dev install is not attempted, and the files
\* and the barrel written before it are on disk.
C30_RuntimeFailureStops ==
    [][(ApplyStep /\ setup.frontend = "core")
          => /\ pm_calls = SubSeq(pm_calls', 1, Len(pm_calls))
             /\ Len(NewCalls) <= 2
             /\ Attempted(planned.plan.dev_requirements)
                   => /\ Last(NewCalls).packages = Unsatisfied(planned.plan.dev_requirements)
                      /\ Landed(planned.plan.runtime_requirements)
             /\ (Installing /\ report'.status = "ok")
                   => /\ Landed(planned.plan.runtime_requirements)
                      /\ Landed(planned.plan.dev_requirements)
             /\ (Installing /\ ~Landed(planned.plan.runtime_requirements))
                   => /\ report'.status = "err"
                      /\ Len(NewCalls) = 1
                      /\ NewCalls[1].packages = Unsatisfied(planned.plan.runtime_requirements)
                      /\ package_json' = package_json
                      /\ FilesAndBarrelWritten
             /\ report'.status = "err" => (NewCalls # <<>> /\ FilesAndBarrelWritten)]_vars

\* The core's apply failed in the runtime install of grid: the package
\* manager was invoked once, the dev requirement is still unsatisfied, and
\* the component file and the barrel are on disk.
C30_Witness ==
    /\ setup.frontend = "core"
    /\ args.components = <<"grid">>
    /\ run = 1
    /\ phase = "done"
    /\ planned.status = "ok"
    /\ report.status = "err"
    /\ Len(pm_calls) = 1
    /\ pm_calls[1].packages = Unsatisfied(planned.plan.runtime_requirements)
    /\ Unsatisfied(planned.plan.dev_requirements) # {}
    /\ package_json = BarePackageJson
    /\ \E i \in 1..Len(PlannedFiles) :
          /\ PlannedFiles[i].status = "Create"
          /\ ReadOptional(disk, PlannedFiles[i].destination)
                = SomeBytes(PlannedFiles[i].contents)
    /\ Exists(disk, BarrelFile)

\* The dev install failed after the runtime install succeeded.
C30_DevFailure ==
    /\ setup.frontend = "core"
    /\ phase = "done"
    /\ report.status = "err"
    /\ Len(pm_calls) = 2
    /\ pm_calls[2].packages = Unsatisfied(planned.plan.dev_requirements)
    /\ Exists(disk, BarrelFile)


(***************************************************************************)
(* core/src/registry.rs: the component-file manifest held in memory        *)
(***************************************************************************)
FetchCalled == last_load.called /\ last_load.call = "fetch_component_file"

\* The call neither read the cache, nor wrote it, nor sent a request.
NoCacheNoNetwork ==
    /\ last_load.requests = 0
    /\ ~last_load.fresh_read
    /\ ~last_load.stale_read
    /\ cache_files[last_load.key] = last_load.before

\* fetch_component_file's result for a path looked up in a manifest.
LookedUpIn(manifest) ==
    last_load.file = fetch_component_file([manifest |-> manifest], last_load.file.path)

\* C31: a fetch_component_file whose load of the component-file manifest
\* succeeds (from a fresh cache entry, the network or a stale cache entry)
\* leaves that manifest in the client, and a failed load leaves none; a
\* manifest in the client stays there, and every fetch_component_file made
\* while the client holds one is answered from it with no cache read and no
\* network request.
C31_MemoizedManifest ==
    /\ [](FetchCalled
             => /\ (~last_load.held.some /\ last_load.result.ok)
                      => client.component_manifest =
                            [some |-> TRUE, map |-> ManifestOf(last_load.result.bytes)]
                /\ (~last_load.held.some /\ ~last_load.result.ok)
                      => ~client.component_manifest.some
                /\ last_load.held.some
                      => /\ NoCacheNoNetwork
                         /\ client.component_manifest = last_load.held
                         /\ LookedUpIn(last_load.held.map))
    /\ [][client.component_manifest.some => client'.component_manifest.some]_vars

\* A file served from the manifest in memory at a time when the cache entry
\* is too old to be read and the network is down.
C31_Witness ==
    /\ FetchCalled
    /\ last_load.held.some
    /\ client.has_cache
    /\ now = STALE_MAX_AGE + 1
    /\ last_load.before.exists
    /\ ~last_load.response.sent
    /\ last_load.file.ok
    /\ NoCacheNoNetwork

\* A manifest memoized from a stale cache entry after an error status.
C31_MemoizedFromStale ==
    /\ FetchCalled
    /\ ~last_load.held.some
    /\ last_load.stale_read
    /\ last_load.response.status = 500
    /\ last_load.result.ok
    /\ client.component_manifest.some

\* A load that failed and left no manifest in the client.
C31_FailedLoad ==
    /\ FetchCalled
    /\ last_load.result = Err("Parse")
    /\ ~client.component_manifest.some


Preloaded == last_load.call = "preload_component_manifest"

\* C32: preload_component_manifest(m) leaves exactly m in the client,
\* whether the client held nothing or a manifest it had loaded; the manifest
\* in the client is replaced by nothing but a later preload; and every
\* fetch_component_file made while the client holds a manifest looks the
\* path up in it and makes no cache read and no network request.
C32_PreloadOverrides ==
    /\ [](Preloaded => client.component_manifest = last_load.preloaded)
    /\ [][(client.component_manifest.some /\ last_load'.call # "preload_component_manifest")
             => client'.component_manifest = client.component_manifest]_vars
    /\ []((FetchCalled /\ last_load.held.some)
             => /\ LookedUpIn(last_load.held.map)
                /\ NoCacheNoNetwork)

\* A preload that replaced the manifest loaded before by a different one.
C32_Witness ==
    /\ Preloaded
    /\ last_load.held.some
    /\ last_load.held.map = Manifest
    /\ last_load.preloaded.map = SparseManifest
    /\ client.component_manifest.map = SparseManifest

\* A preload into a client that had loaded nothing.
C32_PreloadFirst ==
    /\ Preloaded
    /\ ~last_load.held.some
    /\ client.component_manifest.map = Manifest


(***************************************************************************)
(* core/src/operations/add.rs: the export specs of a component's entries   *)
(***************************************************************************)
ExportSpecs == planned.plan.installed_components

\* The planned files whose registry record declares them `kind: "entry"`.
DeclaredEntries ==
    {i \in 1..Len(PlannedFiles) :
        \E slug \in DOMAIN Catalog :
           \E k \in 1..Len(Catalog[slug].files) :
              /\ Catalog[slug].files[k].path = PlannedFiles[i].registry_path
              /\ is_entry_file(Catalog[slug].files[k])}

SpecsOf(i) ==
    {k \in 1..Len(ExportSpecs) : ExportSpecs[k].entry_path = PlannedFiles[i].destination}

\* The barrel has a default re-export under the name.
BarrelExports(name) ==
    /\ Exists(disk, BarrelFile)
    /\ \E n \in 1..Len(FsRead(disk, BarrelFile)) :
          /\ FsRead(disk, BarrelFile)[n].kind = "component"
          /\ FsRead(disk, BarrelFile)[n].name = name

\* C33: plan produces one export spec for each entry file of a component,
\* the export names of the specs are pairwise distinct, whatever the order
\* of the entry files in the component record, and so after apply the
\* barrel has a line for each of the specs.
C33_EntryExportsDistinct ==
    planned.status = "ok"
       => /\ \A i \in DeclaredEntries : Cardinality(SpecsOf(i)) = 1
          /\ \A j, k \in 1..Len(ExportSpecs) :
                j # k => ExportSpecs[j].export_name # ExportSpecs[k].export_name
          /\ (AppliedOk /\ ~args.dry_run /\ edits = 0)
                => /\ \A k \in 1..Len(ExportSpecs) : BarrelExports(ExportSpecs[k].export_name)
                   /\ Cardinality({n \in 1..Len(FsRead(disk, BarrelFile)) :
                                      FsRead(disk, BarrelFile)[n].kind = "component"})
                         >= Len(ExportSpecs)

\* What holds of the code: one spec per entry file, the first named from the
\* slug and each later one from its file stem.
C33_OneSpecPerEntry ==
    planned.status = "ok"
       => /\ \A i \in DeclaredEntries : Cardinality(SpecsOf(i)) = 1
          /\ \A k \in 1..Len(ExportSpecs) :
                ExportSpecs[k].export_name
                   \in {format_export_name(slug) : slug \in DOMAIN Catalog}
                       \cup {format_export_name(file_stem(ExportSpecs[k].entry_path))}

\* twin is planned: two entry files, two specs, one export name.
C33_TwinCollides ==
    /\ planned.status = "ok"
    /\ args.components = <<"twin">>
    /\ Len(ExportSpecs) = 2
    /\ ExportSpecs[1].entry_path # ExportSpecs[2].entry_path
    /\ ExportSpecs[1].export_name = "Twin"
    /\ ExportSpecs[2].export_name = "Twin"


(***************************************************************************)
(* core/src/workspace.rs: sync_tailwind_tokens                             *)
(***************************************************************************)
\* A CSS text is its sequence of lines.
CSS_TOKEN_SENTINEL == "@utility card-highlight"

TailwindImport == "@import 'tailwindcss';"

ThemeImport == "@import './theme.css';"

\* line.trim_start().starts_with("@import")
IsImport(line) == line \in {TailwindImport, ThemeImport}

\* existing.contains(CSS_TOKEN_SENTINEL)
HasSentinel(contents) == \E i \in 1..Len(contents) : contents[i] = CSS_TOKEN_SENTINEL

\* has_tailwind_import
has_tailwind_import(contents) == \E i \in 1..Len(contents) : contents[i] = TailwindImport

\* find_import_insertion_index: the number of lines up to the last @import.
find_import_insertion_index(contents) ==
    IF \E i \in 1..Len(contents) : IsImport(contents[i])
    THEN CHOOSE i \in 1..Len(contents) :
            /\ IsImport(contents[i])
            /\ \A j \in (i + 1)..Len(contents) : ~IsImport(contents[j])
    ELSE 0

\* split_token_bundle: the bundle's leading @import line, if any, and the rest.
split_token_bundle(source) ==
    IF source # <<>> /\ IsImport(source[1])
    THEN [import |-> <<source[1]>>, body |-> Tail(source)]
    ELSE [import |-> <<>>, body |-> source]

\* trim_token_body: without the empty lines at either end.
RECURSIVE trim_token_body(_)
trim_token_body(body) ==
    IF body = <<>> THEN body
    ELSE IF Head(body) = "" THEN trim_token_body(Tail(body))
    ELSE IF Last(body) = "" THEN trim_token_body(Front(body))
    ELSE body

\* `block`: the bundle's import line when the file has no tailwind import,
\* an empty line, and the token body.
TokenBlock(existing, import, body) ==
    (IF ~has_tailwind_import(existing) /\ import # <<>> THEN import \o <<"">> ELSE <<>>)
        \o body

\* `updated`: the block after the file's last @import, set off by an empty line.
InsertedAt(existing, index, block) ==
    SubSeq(existing, 1, index)
        \o (IF index > 0 /\ existing[index] # "" THEN <<"">> ELSE <<>>)
        \o block
        \o SubSeq(existing, index + 1, Len(existing))

UpdatedCss(existing, bundle) ==
    InsertedAt(existing, find_import_insertion_index(existing),
               TokenBlock(existing, split_token_bundle(bundle).import,
                          trim_token_body(split_token_bundle(bundle).body)))

NoCssFile == [exists |-> FALSE, lines |-> <<>>]

CssFile(lines) == [exists |-> TRUE, lines |-> lines]

\* How the file system answers the calls of one sync. fs::copy and fs::write
\* open the destination with truncation: a call that fails may have been
\* refused before that, or have left the destination empty or cut short.
SyncIo ==
    [backup : {"ok", "refused"},
     write : {"ok", "refused", "partial"},
     restore : {"ok", "refused", "truncated"},
     remove : BOOLEAN]

\* The destination after a write or copy of `lines` that ends as `how`.
AfterWrite(file, lines, how) ==
    CASE how = "ok" -> CssFile(lines)
      [] how = "refused" -> file
      [] how = "truncated" -> CssFile(<<>>)
      [] how = "partial" -> CssFile(Front(lines))

SyncOk(status) == [ok |-> TRUE, status |-> status, critical |-> FALSE]

SyncErr(variant, critical) == [ok |-> FALSE, status |-> variant, critical |-> critical]

Synced(result, files) == [result |-> result, css |-> files]

\* `Err(err) => { if let Err(..) = restore_backup(..) { CRITICAL } .. Io }`
WriteFailed(files, io) ==
    Synced(SyncErr("Io", io.restore # "ok"),
           [files EXCEPT !.target = AfterWrite(@, files.backup.lines, io.restore)])

\* A sync that returns the write's error without restoring (mutant).
SyncWriteNoRestore(files, updated, io) ==
    IF io.write = "ok"
    THEN Synced(SyncOk("Updated"),
                [files EXCEPT !.backup = IF io.remove THEN NoCssFile ELSE @])
    ELSE Synced(SyncErr("Io", FALSE), files)

\* `match fs::write(&target, updated)`; files is the disk after the write.
SyncWrite(files, updated, io) ==
    IF io.write = "ok"
    THEN Synced(SyncOk("Updated"),
                [files EXCEPT !.backup = IF io.remove THEN NoCssFile ELSE @])
    ELSE WriteFailed(files, io)

\* `let backup_path = create_backup(&target)?;` and the write.
SyncBackup(files, updated, io) ==
    IF io.backup # "ok" THEN Synced(SyncErr("Io", FALSE), files)
    ELSE SyncWrite([target |-> AfterWrite(files.target, updated, io.write),
                    backup |-> CssFile(files.target.lines)],
                   updated, io)

\* sync_tailwind_tokens once the token bundle is fetched.
SyncFetched(files, bundle, dry_run, io) ==
    IF trim_token_body(split_token_bundle(bundle).body) = <<>>
    THEN Synced(SyncErr("TailwindTokensEmpty", FALSE), files)
    ELSE IF dry_run THEN Synced(SyncOk("DryRun"), files)
    ELSE SyncBackup(files, UpdatedCss(files.target.lines, bundle), io)

\* sync_tailwind_tokens(workspace_root, config, registry, dry_run): css_path
\* is config.tailwind.css, fetched the result of fetch_component_file.
sync_tailwind_tokens(files, css_path, fetched, dry_run, io) ==
    IF css_path = "" THEN Synced(SyncOk("MissingConfig"), files)
    ELSE IF ~files.target.exists THEN Synced(SyncOk("MissingFile"), files)
    ELSE IF HasSentinel(files.target.lines) THEN Synced(SyncOk("AlreadyPresent"), files)
    ELSE IF ~fetched.ok THEN Synced(SyncErr("Registry", FALSE), files)
    ELSE SyncFetched(files, fetched.bundle, dry_run, io)

\* The CSS files a workspace may hold.
CssTexts ==
    {<<"body {}">>,
     <<TailwindImport, "", "body {}">>,
     <<ThemeImport, "body {}">>,
     <<TailwindImport, CSS_TOKEN_SENTINEL>>}

\* tokens/motion-core.css as the registry may serve it.
TokenBundles ==
    {<<TailwindImport, "", CSS_TOKEN_SENTINEL, "">>,
     <<TailwindImport, "">>}

FetchedTokens ==
    {[ok |-> FALSE, bundle |-> <<>>]} \cup {[ok |-> TRUE, bundle |-> b] : b \in TokenBundles}

NoSync ==
    [called |-> FALSE, css_path |-> "", dry_run |-> FALSE,
     fetched |-> [ok |-> FALSE, bundle |-> <<>>],
     io |-> [backup |-> "ok", write |-> "ok", restore |-> "ok", remove |-> TRUE],
     before |-> NoCssFile, result |-> SyncOk("")]

SyncInit ==
    /\ ClearIdle
    /\ RaceIdle
    /\ FnIdle
    /\ OrderIdle
    /\ CacheIdle
    /\ AddIdle
    /\ css \in [target : {NoCssFile} \cup {CssFile(t) : t \in CssTexts}, backup : {NoCssFile}]
    /\ last_sync = NoSync

SyncDone(css_path, fetched, dry_run, io, synced) ==
    /\ css' = synced.css
    /\ last_sync' = [called |-> TRUE, css_path |-> css_path, dry_run |-> dry_run,
                     fetched |-> fetched, io |-> io, before |-> css.target,
                     result |-> synced.result]
    /\ UNCHANGED <<fnVars, orderVars, cacheVars, addVars, clearVars, raceVars>>

\* The init command's token step.
SyncTailwindTokens ==
    \E css_path \in {"", "src/app.css"}, fetched \in FetchedTokens, dry_run \in BOOLEAN :
      \E io \in SyncIo :
        SyncDone(css_path, fetched, dry_run, io,
                 sync_tailwind_tokens(css, css_path, fetched, dry_run, io))

SyncNext == SyncTailwindTokens

SpecSync == SyncInit /\ [][SyncNext]_vars

\* The last sync got as far as the write of the target.
WriteTried ==
    /\ last_sync.called
    /\ last_sync.css_path # ""
    /\ last_sync.before.exists
    /\ ~HasSentinel(last_sync.before.lines)
    /\ last_sync.fetched.ok
    /\ trim_token_body(split_token_bundle(last_sync.fetched.bundle).body) # <<>>
    /\ ~last_sync.dry_run
    /\ last_sync.io.backup = "ok"

SyncUpdated == UpdatedCss(last_sync.before.lines, last_sync.fetched.bundle)

\* C34 (as stated): in the non-dry-run sync, when the write succeeds the
\* backup is deleted and the target holds the updated content; when the
\* write fails the backup is copied back, the target holds its original
\* content and an Io error is returned; in no outcome does the target hold
\* anything but the original or the complete update.
C34_TargetNeverTorn ==
    /\ WriteTried
          => /\ last_sync.io.write = "ok"
                   => /\ last_sync.result = SyncOk("Updated")
                      /\ css.target = CssFile(SyncUpdated)
             /\ last_sync.io.write # "ok"
                   => /\ ~last_sync.result.ok /\ last_sync.result.status = "Io"
                      /\ css.target = last_sync.before
    /\ last_sync.called => css.target \in {last_sync.before, CssFile(SyncUpdated)}

\* C34 (amended): when the write succeeds the target holds the updated
\* content and the backup's removal was attempted; when the write fails an
\* Io error is returned and the backup is copied back: the target holds its
\* original content if that copy succeeds, and if it fails too the error
\* says so and the backup file still holds the original. A sync that does
\* not reach the write leaves the target as it was.
C34_RestoredOrBackedUp ==
    /\ WriteTried
          => /\ last_sync.io.write = "ok"
                   => /\ last_sync.result = SyncOk("Updated")
                      /\ css.target = CssFile(SyncUpdated)
                      /\ last_sync.io.remove => ~css.backup.exists
             /\ last_sync.io.write # "ok"
                   => /\ ~last_sync.result.ok /\ last_sync.result.status = "Io"
                      /\ css.backup = last_sync.before
                      /\ last_sync.io.restore = "ok"
                            => css.target = last_sync.before /\ ~last_sync.result.critical
                      /\ last_sync.io.restore # "ok" => last_sync.result.critical
    /\ (last_sync.called /\ ~WriteTried) => css.target = last_sync.before

\* The write cut the target short and the backup brought the original back.
C34_Witness ==
    /\ WriteTried
    /\ last_sync.io.write = "partial"
    /\ last_sync.io.restore = "ok"
    /\ last_sync.before = CssFile(<<ThemeImport, "body {}">>)
    /\ css.target = last_sync.before
    /\ last_sync.result = SyncErr("Io", FALSE)

\* The write and the restore both failed: the target is cut short, the
\* original is in the backup file.
C34_Torn ==
    /\ WriteTried
    /\ last_sync.io.write = "partial"
    /\ last_sync.io.restore = "refused"
    /\ last_sync.before = CssFile(<<"body {}">>)
    /\ css.target = CssFile(Front(SyncUpdated))
    /\ css.backup = last_sync.before
    /\ last_sync.result = SyncErr("Io", TRUE)


(***************************************************************************)
(* core/src/operations/list.rs: the list command                           *)
(***************************************************************************)
\* `let summary = ctx.registry().summary()?;` failed: the command ends.
ListFailed(first) ==
    [loaded |-> first, loads |-> 1, requests |-> first.requests, between |-> first.files,
     result |-> first.result, summary |-> "", components |-> ""]

\* `let mut components = ctx.registry().list_components()?;`, a second
\* load_registry that meets the cache as the first one left it.
ListLoaded(first, second) ==
    [loaded |-> second, loads |-> 2, requests |-> first.requests + second.requests,
     between |-> first.files, result |-> second.result,
     summary |-> IF second.result.ok THEN first.result.bytes ELSE "",
     components |-> second.result.bytes]

\* operations::list::run: summary() and list_components() each call
\* load_registry; the two GETs, if made, may be answered differently.
list_run(has_cache, files, key, ttls, clock, responses, io_ok) ==
    IF ~load_registry(has_cache, files, key, ttls, clock, responses[1], io_ok[1]).result.ok
    THEN ListFailed(load_registry(has_cache, files, key, ttls, clock, responses[1], io_ok[1]))
    ELSE ListLoaded(
             load_registry(has_cache, files, key, ttls, clock, responses[1], io_ok[1]),
             load_registry(has_cache,
                           load_registry(has_cache, files, key, ttls, clock, responses[1],
                                         io_ok[1]).files,
                           key, ttls, clock, responses[2], io_ok[2]))

ListInit ==
    /\ ClearIdle
    /\ SyncIdle
    /\ RaceIdle
    /\ FnIdle
    /\ OrderIdle
    /\ AddIdle
    /\ ttl \in TtlChoices
    /\ now = 0
    /\ cache_files \in [CacheKeys -> LoadFiles]
    /\ last_read = NoRead
    /\ last_write = NoWrite
    /\ client \in [has_cache : BOOLEAN, component_manifest : {NoManifest}]
    /\ last_load = NoLoad

\* The command as the process that ran it leaves the world.
Listed(key, responses, listed) ==
    /\ cache_files' = listed.loaded.files
    /\ last_load' = [called |-> TRUE, call |-> "list", key |-> key, responses |-> responses,
                     before |-> cache_files[key], between |-> listed.between[key],
                     loads |-> listed.loads,
                     requests |-> listed.requests, result |-> listed.result,
                     summary |-> listed.summary, components |-> listed.components]
    /\ UNCHANGED <<ttl, now, last_read, last_write, client, fnVars, orderVars, addVars,
                   clearVars, syncVars, raceVars>>

\* One invocation of `motion-core list`.
ListRun ==
    \E scope \in Scopes, r1 \in NetworkResponses, r2 \in NetworkResponses :
      \E io1 \in IoChoices(r1), io2 \in IoChoices(r2) :
        Listed(<<scope, REGISTRY_JSON>>, <<r1, r2>>,
               list_run(client.has_cache, cache_files, <<scope, REGISTRY_JSON>>, ttl, now,
                        <<r1, r2>>, <<io1, io2>>))

ListNext == LoadAdvance \/ ListRun

SpecList == ListInit /\ [][ListNext]_vars

ListCalled == last_load.called /\ last_load.call = "list"

\* C35: within one invocation the catalog is loaded once (one cache lookup,
\* at most one network fetch), so the list command's summary and component
\* listing come from a single load.
C35_CatalogLoadedOnce ==
    ListCalled
        => /\ last_load.loads <= 1
           /\ last_load.requests <= 1
           /\ last_load.result.ok => last_load.summary = last_load.components

\* The command never makes more than two loads, and makes the second only
\* after the first succeeded.
C35_AtMostTwoLoads ==
    ListCalled
        => /\ last_load.loads \in {1, 2}
           /\ last_load.requests <= last_load.loads
           /\ last_load.result.ok => last_load.loads = 2
           /\ last_load.loads = 1 => ~last_load.result.ok

\* With a cache that held a fresh well-formed catalog, or that took the one
\* the first load fetched, the second load is answered from it: `between`
\* is the cache entry as the first load left it.
C35_SecondLoadFromCache ==
    (/\ ListCalled
     /\ last_load.result.ok
     /\ client.has_cache
     /\ last_load.between.exists
     /\ now - last_load.between.modified <= ttl.registry_ttl
     /\ Parses(last_load.between.bytes))
        => /\ last_load.requests <= 1
           /\ last_load.summary = last_load.components

\* Two GETs answered with two versions of the catalog: the summary is of
\* one, the listing of the other.
C35_TwoCatalogs ==
    /\ ListCalled
    /\ last_load.result.ok
    /\ last_load.requests = 2
    /\ last_load.summary = "b1"
    /\ last_load.components = "b2"


(***************************************************************************)
(* core/src/operations/add.rs: two invocations in one workspace            *)
(***************************************************************************)
Invocations == {1, 2}

\* The components the two invocations ask for: installable, and different.
RaceRequests == {<<"grid">>, <<"dup">>, <<"twin">>}

RaceOptions(slugs) ==
    [components |-> slugs, dry_run |-> FALSE, mode |-> "NonInteractive"]

Waiting(slugs) ==
    [phase |-> "start", options |-> RaceOptions(slugs), planned |-> NotPlanned,
     report |-> NoReport, planned_after |-> {}, applied_after |-> {}]

\* The invocations that have returned.
HaveReturned == {q \in Invocations : invocations[q].phase = "done"}

RaceInit ==
    /\ ClearIdle
    /\ SyncIdle
    /\ FnIdle
    /\ OrderIdle
    /\ CacheIdle
    /\ setup \in [frontend : {"core"}, config : {SomeConfig(DefaultConfig)},
                  package_manager : {"Unknown", "Npm"}]
    /\ disk \in InitialDisks
    /\ package_json \in {BarePackageJson, PackageJson("missing", NoDeps, NoDeps)}
    /\ pm_calls = <<>>
    /\ invocations \in {inv \in [Invocations -> {Waiting(c) : c \in RaceRequests}] :
                           inv[1].options.components # inv[2].options.components}
    /\ args = <<>>
    /\ phase = "idle"
    /\ run = 0
    /\ planned = <<>>
    /\ asked = <<>>
    /\ report = <<>>
    /\ history = <<>>
    /\ edits = 0

RacePlanned(p, result) ==
    /\ invocations' =
          [invocations EXCEPT
              ![p] = [@ EXCEPT !.phase = IF result.status = "ok" THEN "planned" ELSE "done",
                               !.planned = result,
                               !.report = IF result.status = "ok" THEN NoReport
                                          ELSE PlanReport(result),
                               !.planned_after = HaveReturned]]
    /\ UNCHANGED <<setup, args, disk, package_json, pm_calls, phase, run, planned, asked,
                   report, history, edits, fnVars, orderVars, cacheVars, clearVars,
                   syncVars>>

\* Invocation p calls plan(ctx, options): it reads the workspace as it is.
RacePlan ==
    \E p \in Invocations :
        /\ invocations[p].phase = "start"
        /\ RacePlanned(p, plan(Ctx, invocations[p].options))

RaceApplied(p, applied) ==
    /\ disk' = applied.fs
    /\ package_json' = applied.pkg
    /\ pm_calls' = pm_calls \o applied.calls
    /\ invocations' = [invocations EXCEPT ![p] = [@ EXCEPT !.phase = "done",
                                                          !.report = Report(applied),
                                                          !.applied_after = HaveReturned]]
    /\ UNCHANGED <<setup, args, phase, run, planned, asked, report, history, edits,
                   fnVars, orderVars, cacheVars, clearVars, syncVars>>

\* Invocation p calls apply(ctx, plan, options): it writes the workspace as
\* it is now, from the plan it made.
RaceApply ==
    \E p \in Invocations :
        /\ invocations[p].phase = "planned"
        /\ \E pm_runtime \in PmBehaviours, pm_dev \in PmBehaviours :
               /\ pm_runtime.records = pm_dev.records
               /\ RaceApplied(p, apply(Ctx, invocations[p].planned.plan,
                                       invocations[p].options, pm_runtime, pm_dev))

RaceNext == RacePlan \/ RaceApply

SpecRace == RaceInit /\ [][RaceNext]_vars

\* The names a barrel text exports components under.
ExportedIn(text) ==
    {text[n].name : n \in {i \in 1..Len(text) : text[i].kind = "component"}}

\* The names invocation p planned to export.
ExportsOf(p) ==
    {invocations[p].planned.plan.installed_components[k].export_name :
        k \in 1..Len(invocations[p].planned.plan.installed_components)}

BothOk ==
    \A p \in Invocations :
        /\ invocations[p].phase = "done"
        /\ invocations[p].planned.status = "ok"
        /\ invocations[p].report.status = "ok"

\* Both plans were made before either apply wrote.
BothPlannedFirst == \A p \in Invocations : invocations[p].planned_after = {}

\* q applied first, p last.
AppliedLast(p, q) == p # q /\ q \in invocations[p].applied_after

\* C36: with two add invocations installing different components and no
\* locking, when both plans read the barrel before either apply writes it,
\* both invocations report success and the barrel on disk is the one the
\* last apply rendered from the barrel its plan read: it has the exports of
\* the first invocation only where that barrel or the last plan had them.
C36_LastApplyWins ==
    \A p \in Invocations, q \in Invocations :
        (BothOk /\ BothPlannedFirst /\ AppliedLast(p, q))
           => /\ Exists(disk, BarrelFile)
              /\ ExportedIn(FsRead(disk, BarrelFile))
                    = ExportedIn(invocations[p].planned.plan.existing_barrel)
                         \cup ExportsOf(p)

\* Both invocations reported success, and the barrel lacks the export of the
\* component the first of them installed.
C36_Witness ==
    /\ BothOk
    /\ BothPlannedFirst
    /\ AppliedLast(2, 1)
    /\ invocations[1].options.components = <<"grid">>
    /\ invocations[2].options.components = <<"twin">>
    /\ invocations[1].report.exports_updated
    /\ Exists(disk, LibDir \o <<"grid", "Grid.svelte">>)
    /\ "Grid" \notin ExportedIn(FsRead(disk, BarrelFile))
    /\ "Twin" \in ExportedIn(FsRead(disk, BarrelFile))

\* One after the other, the barrel has the exports of both.
C36_SerialKeepsBoth ==
    \A p \in Invocations, q \in Invocations :
        (BothOk /\ q \in invocations[p].planned_after)
           => ExportsOf(p) \cup ExportsOf(q) \subseteq ExportedIn(FsRead(disk, BarrelFile))


(***************************************************************************)
(* core/src/cache.rs: the age of what a read returns                       *)
(***************************************************************************)
\* C37 (as stated): no cache read returns data whose file age exceeds the
\* 30-day maximum, for any configured registry or asset TTL and for either
\* value of allow_stale.
C37_NeverOlderThanMax ==
    (last_read.called /\ last_read.some) => (ReadAged /\ ReadAge <= STALE_MAX_AGE)

\* C37 (amended): a read returns data only of a file whose age is at most
\* the kind's TTL (fresh = true) or, with allow_stale, at most 30 days
\* (fresh = false); so data older than 30 days is returned only as fresh
\* and only under a TTL of more than 30 days.
C37_AgeWithinTtlOrMax ==
    (last_read.called /\ last_read.some)
        => /\ ReadAged
           /\ last_read.fresh => ReadAge <= ReadTtl
           /\ ~last_read.fresh
                 => last_read.allow_stale /\ ReadAge > ReadTtl /\ ReadAge <= STALE_MAX_AGE
           /\ ReadTtl <= STALE_MAX_AGE => ReadAge <= STALE_MAX_AGE

\* A TTL of more than 30 days set through the environment, and a file one
\* second older than 30 days: it is served as fresh, also without allow_stale.
C37_Witness ==
    /\ last_read.called
    /\ ~last_read.allow_stale
    /\ ReadTtl > STALE_MAX_AGE
    /\ ReadAged /\ ReadAge = STALE_MAX_AGE + 1
    /\ last_read.some /\ last_read.fresh

\* Under the default TTLs nothing older than 30 days is served.
C37_DefaultTtls ==
    (last_read.called /\ last_read.some /\ ReadTtl \in {DEFAULT_REGISTRY_TTL, DEFAULT_ASSET_TTL})
        => ReadAge <= STALE_MAX_AGE


(***************************************************************************)
(* core/src/registry.rs: what the loads persist                            *)
(***************************************************************************)
\* The cache entries the step changes.
Rewritten == {key \in CacheKeys : cache_files'[key] # cache_files[key]}

\* C38: the cache entry of each manifest kind only ever holds bytes that
\* parsed as that manifest: a fetched body that fails to parse is not
\* persisted and never replaces a cached valid manifest.
C38_OnlyParsedPersisted ==
    [][\A key \in Rewritten : Parses(cache_files'[key].bytes)]_vars

\* What the loads do persist: the body of the 200 response just received,
\* whole and as it came, under the key of the manifest asked for.
C38_FetchedBodyPersisted ==
    [][\A key \in Rewritten :
          /\ last_load'.called
          /\ last_load'.key = key
          /\ last_load'.requests = 1
          /\ fetch_remote_json(last_load'.response) = FetchSome(cache_files'[key].bytes)]_vars

\* A valid manifest in the cache, past its TTL, is replaced by a body that
\* does not parse, and the load returns the parse error.
C38_Poisoned ==
    /\ last_load.called
    /\ last_load.before = CachedFile(0, "b1")
    /\ last_load.response.body = "junk"
    /\ cache_files[last_load.key].bytes = "junk"
    /\ ~last_load.result.ok
    /\ last_load.result.variant = "Parse"

\* The stale fallback meets an entry that does not parse.
C38_FallbackFails ==
    /\ last_load.called
    /\ last_load.stale_read
    /\ last_load.before.bytes = "junk"
    /\ last_load.before.modified > 0
    /\ ~last_load.result.ok
    /\ last_load.result.variant = "Parse"


(***************************************************************************)
(* core/src/components.rs: the destinations of one plan                    *)
(***************************************************************************)
\* Two planned files of the plan with different registry paths.
DistinctPaths(i, j) ==
    /\ i \in 1..Len(PlannedFiles)
    /\ j \in 1..Len(PlannedFiles)
    /\ PlannedFiles[i].registry_path # PlannedFiles[j].registry_path

\* C39: within one plan, planned files with distinct registry paths resolve
\* to pairwise distinct destinations, so during apply no planned file
\* overwrites a file written for another planned file of the same plan.
C39_DestinationsDistinct ==
    planned.status = "ok"
       => \A i \in 1..Len(PlannedFiles), j \in 1..Len(PlannedFiles) :
             DistinctPaths(i, j) => PlannedFiles[i].destination # PlannedFiles[j].destination

\* Registry paths that differ in more than a leading category segment never
\* share a destination in the plans of the catalog.
C39_DistinctBeyondCategory ==
    planned.status = "ok"
       => \A i \in 1..Len(PlannedFiles), j \in 1..Len(PlannedFiles) :
             (/\ DistinctPaths(i, j)
              /\ strip_category(PlannedFiles[i].registry_path)
                    # strip_category(PlannedFiles[j].registry_path))
                => PlannedFiles[i].destination # PlannedFiles[j].destination

\* components/dup/Dup.svelte and dup/Dup.svelte in one plan, one destination,
\* and the apply wrote it twice: created for the first, updated for the second.
C39_Overwritten ==
    /\ AppliedOk
    /\ ~args.dry_run
    /\ DistinctPaths(1, 2)
    /\ PlannedFiles[1].destination = PlannedFiles[2].destination
    /\ PlannedFiles[1].apply /\ PlannedFiles[2].apply
    /\ report.files[1].status = "Created"
    /\ report.files[2].status = "Updated"
    /\ FsRead(disk, PlannedFiles[1].destination) = PlannedFiles[2].contents
    /\ PlannedFiles[1].contents # PlannedFiles[2].contents


(***************************************************************************)
(* cli/src/commands/add.rs: which files conflict resolution may skip       *)
(***************************************************************************)
\* The planned files marked to be skipped.
Skipped == {i \in 1..Len(PlannedFiles) : ~PlannedFiles[i].apply}

\* C40: in every state reached by planning followed by conflict resolution,
\* in any mode and with any answers, a planned file has apply = false only
\* if its plan status is Update; files with status Create or Unchanged are
\* never marked to be skipped.
C40_OnlyUpdatesSkipped ==
    (setup.frontend = "cli" /\ planned.status = "ok")
        => \A i \in Skipped : PlannedFiles[i].status = "Update"

\* The user declined one overwrite: that file is skipped, and the plan's
\* files to create or leave unchanged are still to be applied.
C40_Witness ==
    /\ setup.frontend = "cli"
    /\ phase = "resolved"
    /\ args.mode = "Prompt"
    /\ ~args.dry_run
    /\ Skipped # {}
    /\ \E i \in 1..Len(PlannedFiles) :
          PlannedFiles[i].status \in {"Create", "Unchanged"} /\ PlannedFiles[i].apply
    /\ \E k \in 1..Len(asked) : ~asked[k].overwrite

=============================================================================
